---- MODULE Spec2Model ----
(***************************************************************************)
(* Client-side TLS 1.3 / KEMTLS handshake state machine of                 *)
(* src/src/client/hs.rs.                                                   *)
(*                                                                         *)
(* One connection is modelled.  The state object (Box<dyn State>) is the   *)
(* pair (st, hs): st names the concrete state struct, hs holds the         *)
(* scratchpads it owns (HandshakeDetails, ClientHelloDetails,              *)
(* ServerCertDetails, ClientAuthDetails and the verification tokens).      *)
(* sess holds the fields of ClientSessionImpl / SessionCommon the handlers *)
(* read and write (sess.installed is the history of the keys given to      *)
(* the record layer).  wire is the history of records that crossed the     *)
(* wire, store the session cache (session_persistence) by key, cfg the     *)
(* ClientConfig, dead_rx the number of records that arrived after an       *)
(* error, rx the message that was last passed to a handler.                *)
(*                                                                         *)
(* The generated algorithm tables of src/rustls/src/generated are          *)
(* modelled as sequences; TableSpec looks one codepoint up in each of      *)
(* them and keeps the results in lookup.                                   *)
(*                                                                         *)
(* Cryptography is symbolic: a transcript hash is the hashed message list  *)
(* together with the algorithm, a derived secret is the triple (label,     *)
(* injected key material so far, transcript hash), and verify_data is the  *)
(* pair (finished key, transcript hash).  Two symbolic values are equal    *)
(* exactly when they were computed from the same inputs.                   *)
(*                                                                         *)
(* Not modelled because they do not touch the state the handlers share:    *)
(* key_log, println!/trace!/debug!, the quic feature, the random values.   *)
(***************************************************************************)
EXTENDS Integers, Sequences, FiniteSets, TLC

VARIABLES st, err, sess, hs, wire, store, cfg, dead_rx, rx, lookup

vars == <<st, err, sess, hs, wire, store, cfg, dead_rx, rx, lookup>>

-----------------------------------------------------------------------------
(* Bounds of the model *)

\* inbound records delivered while in the traffic state
MaxTraffic == 1
\* application-data records the user writes once start_traffic was called
MaxAppData == 1
\* inbound records that arrive after the connection has failed
MaxDeadRx == 1

-----------------------------------------------------------------------------
(* Names *)

DEFAULT_GROUP == "DEFAULT_GROUP"

\* groups of suites::KeyExchange::supported_groups(): the default one and
\* one more that the client supports but does not offer a share for
SupportedGroups == {DEFAULT_GROUP, "OTHER_GROUP"}

Suite256 == "TLS13_AES_128_GCM_SHA256"
Suite384 == "TLS13_AES_256_GCM_SHA384"
Suite12  == "TLS_ECDHE_RSA_WITH_AES_128_GCM_SHA256"

\* sess.get_cipher_suites(): what the client offers
OfferedSuites == {Suite256, Suite384, Suite12}

SuiteHash(s) == IF s = Suite384 THEN "SHA384" ELSE "SHA256"

SuiteVersion(s) == IF s = Suite12 THEN "TLSv1_2" ELSE "TLSv1_3"

\* the handshake and content types the model's peer can send
HandshakeTypes ==
    {"ServerHello", "HelloRetryRequest", "EncryptedExtensions",
     "CertificateRequest", "Certificate", "CertificateVerify", "Finished",
     "NewSessionTicket", "KeyUpdate"}

InboundTypes == HandshakeTypes \cup {"ApplicationData"}

LiveStates ==
    {"ExpectServerHelloOrHelloRetryRequest", "ExpectServerHello",
     "ExpectTLS13EncryptedExtensions", "ExpectTLS13CertificateOrCertReq",
     "ExpectTLS13Certificate", "ExpectTLS13CertificateVerify",
     "ExpectTLS13Finished", "ExpectTLS13Traffic"}

-----------------------------------------------------------------------------
(* Symbolic values *)

Msg(from, typ) == [from |-> from, typ |-> typ]

NoHash == [alg |-> "none", over |-> <<>>]

Ikm(tag, val, h) == [tag |-> tag, val |-> val, h |-> h]

NoSecret == [kind |-> "none", inputs |-> <<>>, hash |-> NoHash]

NoKeySchedule ==
    [alg |-> "none", inputs |-> <<>>,
     current_client_traffic_secret |-> NoSecret,
     current_server_traffic_secret |-> NoSecret,
     current_exporter_secret |-> NoSecret]

NoSession ==
    [version |-> "none", cipher_suite |-> "none", ticket |-> "none",
     master_secret |-> "none", lifetime |-> 0, age_add |-> 0,
     max_early_data_size |-> 0]

NoVerifyData == [fk |-> NoSecret, hash |-> NoHash]

\* no message has been passed to a handler yet
\* no codepoint was looked up in the generated tables
NoLookup ==
    [scheme |-> "none", oid |-> "none", arms |-> -1, listed |-> -1,
     verify |-> -1]

NoMessage == [typ |-> "none", m |-> "none", pending |-> FALSE]

-----------------------------------------------------------------------------
(* Key schedule (crate::key_schedule) *)

\* KeySchedule::new(hash)
KeyScheduleNew(alg) == [NoKeySchedule EXCEPT !.alg = alg]

\* KeySchedule::input_empty(): HKDF-Extract of the all-zero IKM
input_empty(ks) ==
    [ks EXCEPT !.inputs = Append(@, Ikm("empty", "zero", NoHash))]

\* KeySchedule::input_secret(ikm): HKDF-Extract of ikm
input_secret(ks, ikm) ==
    [ks EXCEPT !.inputs = Append(@, Ikm("secret", ikm, NoHash))]

\* KeySchedule::derive_with_hash(hash): the ratchet of the KEMTLS branch
derive_with_hash(ks, h) ==
    [ks EXCEPT !.inputs = Append(@, Ikm("derived", "handshake", h))]

\* KeySchedule::derive(kind, hash): HKDF-Expand-Label over the current PRK
derive(ks, kind, h) == [kind |-> kind, inputs |-> ks.inputs, hash |-> h]

ClientKinds ==
    {"ClientEarlyTrafficSecret", "ClientHandshakeTrafficSecret",
     "ClientAuthenticatedHandshakeTrafficSecret",
     "ClientApplicationTrafficSecret"}

\* KeySchedule::sign_finish(kind, hash): HMAC under the finished key of the
\* current traffic secret of the side that kind names
sign_finish(ks, kind, h) ==
    [fk |-> IF kind \in ClientKinds
            THEN ks.current_client_traffic_secret
            ELSE ks.current_server_traffic_secret,
     hash |-> h]

\* KeySchedule::sign_verify_data(base_key, hash): the PSK binder
sign_verify_data(base_key, h) == [fk |-> base_key, hash |-> h]

-----------------------------------------------------------------------------
(* The machine a handler works on: the state object and the session *)

Cur ==
    [st |-> st, err |-> err, sess |-> sess, hs |-> hs, wire |-> wire,
     store |-> store, rx |-> rx]

Commit(M) ==
    /\ st' = M.st
    /\ err' = M.err
    /\ sess' = M.sess
    /\ hs' = M.hs
    /\ wire' = M.wire
    /\ store' = M.store
    /\ cfg' = cfg
    /\ dead_rx' = dead_rx
    /\ rx' = M.rx
    /\ lookup' = lookup

\* the epoch label of an installed record key
KeyLabel(secret) == IF secret.kind = "none" THEN "plain" ELSE secret.kind

\* SessionCommon::send_msg(m, must_encrypt)
send_msg(M, typ, must_encrypt) ==
    [M EXCEPT !.wire = Append(@,
        [dir |-> "out", typ |-> typ,
         key |-> IF must_encrypt
                 THEN KeyLabel(M.sess.message_encrypter) ELSE "plain",
         at |-> M.st, handled |-> TRUE])]

\* SessionCommon::send_fatal_alert(desc)
send_fatal_alert(M, desc) ==
    [M EXCEPT !.sess.alerts = Append(@, desc)]

\* hash_hs::HandshakeHash::add_message
add_message(M, m) == [M EXCEPT !.sess.hs_transcript = Append(@, m)]

\* hash_hs::HandshakeHash::start_hash
start_hash(M, alg) == [M EXCEPT !.sess.hash_alg = alg]

\* hash_hs::HandshakeHash::get_current_hash
get_current_hash(M) ==
    [alg |-> M.sess.hash_alg, over |-> M.sess.hs_transcript]

\* hash_hs::HandshakeHash::get_hash_given(alg, extra)
get_hash_given(M, alg, extra) ==
    [alg |-> alg, over |-> M.sess.hs_transcript \o extra]

\* SessionCommon::set_message_encrypter / set_message_decrypter; installed
\* keeps the order in which the record layer was given its keys
set_message_encrypter(M, secret) ==
    [M EXCEPT !.sess.message_encrypter = secret,
              !.sess.installed = Append(@, <<"write", secret.kind>>)]

set_message_decrypter(M, secret) ==
    [M EXCEPT !.sess.message_decrypter = secret,
              !.sess.installed = Append(@, <<"read", secret.kind>>)]

\* a faulty variant of ReturnErr used to test C9: the state object survives
\* the error
ReturnErrKeepState(M, e) == [M EXCEPT !.err = e]

\* `return Err(e)` from State::handle: handle takes the state by value
\* (self: Box<Self>), so the state object is consumed and no successor exists
ReturnErr(M, e) == [M EXCEPT !.st = "Dead", !.err = e]

\* a failed assert!/unwrap()/unreachable!(): the handler does not return
Panic(M, why) == [M EXCEPT !.st = "Panic", !.err = why]

\* fn illegal_param
illegal_param(M, why) ==
    ReturnErr(send_fatal_alert(M, "IllegalParameter"),
              "PeerMisbehavedError")

Failed(M) == M.st \in {"Dead", "Panic"}

-----------------------------------------------------------------------------
(* Configuration and session cache *)

\* the extra extensions a caller of start_handshake may pass (hs.rs 194-221)
ExtraExts == <<"TransportParameters">>

\* ClientConfig: the protocol versions, and three settings of the optional
\* features (everything on; tickets only; everything off); one more
\* connection is started with extra extensions
Configs ==
    {[versions |-> v, enable_tickets |-> f[1], enable_early_data |-> f[2],
      ct_logs |-> f[3], extra_exts |-> <<>>] :
        v \in {{"TLSv1_3", "TLSv1_2"}, {"TLSv1_3"}, {"TLSv1_2"}},
        f \in {<<TRUE, TRUE, TRUE>>, <<TRUE, FALSE, FALSE>>,
               <<FALSE, FALSE, FALSE>>}}
    \cup
    {[versions |-> {"TLSv1_3"}, enable_tickets |-> TRUE,
      enable_early_data |-> TRUE, ct_logs |-> FALSE,
      extra_exts |-> ExtraExts]}

\* the server name given to the session and the name of another server the
\* cache has an entry for
DnsName == "server.example"
OtherDnsName == "other.example"

\* ClientSessionKey::session_for_dns_name
session_for_dns_name(dns_name) == <<"session", dns_name>>

\* the keys of session_persistence
StoreKeys == {session_for_dns_name(n) : n \in {DnsName, OtherDnsName}}

\* ClientSessionValue::new(version, suite, sessid, ticket, ms): the times
\* and max_early_data_size start at zero
ClientSessionValue(version, suite, ticket, ms) ==
    [version |-> version, cipher_suite |-> suite, ticket |-> ticket,
     master_secret |-> ms, lifetime |-> 0, age_add |-> 0,
     max_early_data_size |-> 0]

\* what session_persistence holds for the server name at the start
CachedSessions ==
    {NoSession,
     ClientSessionValue("TLSv1_3", Suite256, "cached_ticket",
                        "resumption_psk"),
     [ClientSessionValue("TLSv1_3", Suite256, "cached_ticket",
                         "resumption_psk")
        EXCEPT !.max_early_data_size = 1]}

\* what session_persistence holds for the other server
OtherSession ==
    ClientSessionValue("TLSv1_3", Suite384, "other_ticket", "other_psk")

support_tls13 == "TLSv1_3" \in cfg.versions
support_tls12 == "TLSv1_2" \in cfg.versions

-----------------------------------------------------------------------------
(* Initial state: the session as constructed, before start_handshake *)

InitSess ==
    [hs_transcript |-> <<>>, hash_alg |-> "none",
     key_schedule |-> NoKeySchedule,
     message_encrypter |-> NoSecret, message_decrypter |-> NoSecret,
     suite |-> "none", negotiated_version |-> "none",
     early_traffic |-> FALSE, early_data |-> "Disabled",
     traffic |-> FALSE, alerts |-> <<>>,
     received_plaintext |-> 0, sent_plaintext |-> 0,
     kx_hint |-> "none", want_write_key_update |-> FALSE,
     installed |-> <<>>]

InitHs ==
    [dns_name |-> DnsName,
     resuming_session |-> NoSession,
     hash_at_client_recvd_server_hello |-> NoHash,
     sent_tls13_fake_ccs |-> FALSE,
     sent_extensions |-> <<>>,
     offered_key_shares |-> <<>>,
     sent_key_shares |-> <<>>,
     cert_chain |-> <<>>, scts |-> "none",
     client_auth |-> "None",
     cert_verified |-> "none", sig_verified |-> "none",
     fin_verified |-> "none",
     client_verify_data |-> NoVerifyData,
     expect_verify_data |-> NoVerifyData,
     finished_verify_data |-> NoVerifyData]

Init ==
    /\ st = "Initial"
    /\ err = "none"
    /\ sess = InitSess
    /\ hs = InitHs
    /\ wire = <<>>
    /\ cfg \in Configs
    /\ \E cached \in CachedSessions :
          store = [k \in StoreKeys |->
                     IF k = session_for_dns_name(DnsName)
                     THEN cached ELSE OtherSession]
    /\ dead_rx = 0
    /\ rx = NoMessage
    /\ lookup = NoLookup

-----------------------------------------------------------------------------
(* InitialState::emit_initial_client_hello / emit_client_hello_for_retry *)

\* fn find_session(sess, dns_name): the cached value under the session key
\* of the name
find_session(M, dns_name) == M.store[session_for_dns_name(dns_name)]

\* a faulty variant of emit_fake_ccs used to test C36: the one-shot flag is
\* not looked at
emit_fake_ccs_always(M) ==
    [send_msg(M, "ChangeCipherSpec", FALSE)
        EXCEPT !.hs.sent_tls13_fake_ccs = TRUE]

\* fn emit_fake_ccs
emit_fake_ccs(M) ==
    IF M.hs.sent_tls13_fake_ccs
    THEN M
    ELSE [send_msg(M, "ChangeCipherSpec", FALSE)
            EXCEPT !.hs.sent_tls13_fake_ccs = TRUE]

\* fn fill_in_psk_binder: the fake key schedule seeded with the resumption
\* secret is installed on the session
fill_in_psk_binder(M) ==
    [M EXCEPT !.sess.key_schedule =
        input_secret(KeyScheduleNew(SuiteHash(M.hs.resuming_session.cipher_suite)),
                     M.hs.resuming_session.master_secret)]

\* a TLS 1.3 ticket is cached and may be used (hs.rs 398-401)
HasTls13Ticket(resuming) ==
    /\ support_tls13
    /\ cfg.enable_tickets
    /\ resuming.version = "TLSv1_3"
    /\ resuming.ticket # "none"

\* the PSK branch of emit_client_hello_for_retry is taken (hs.rs 398-408):
\* TLS 1.3 and tickets enabled, a TLS 1.3 ticket cached, its suite known
OffersPsk(resuming) ==
    /\ HasTls13Ticket(resuming)
    /\ resuming.cipher_suite \in OfferedSuites

\* the early_data extension is offered (hs.rs 411-418)
OffersEarlyData(resuming) ==
    /\ OffersPsk(resuming)
    /\ cfg.enable_early_data
    /\ resuming.max_early_data_size > 0

\* a faulty variant of ClientHelloExtensions used to test C23: the extra
\* extensions are appended at the end
ClientHelloExtensionsExtraLast(resuming) ==
    <<"SupportedVersions", "ServerName", "ECPointFormats", "EllipticCurves",
      "SignatureAlgorithms", "ExtendedMasterSecret", "StatusRequest">>
    \o (IF cfg.ct_logs THEN <<"SCT">> ELSE <<>>)
    \o (IF support_tls13 THEN <<"KeyShare">> ELSE <<>>)
    \o (IF support_tls13 /\ cfg.enable_tickets
        THEN <<"PSKKeyExchangeModes">> ELSE <<>>)
    \o (IF OffersPsk(resuming)
        THEN (IF OffersEarlyData(resuming) THEN <<"EarlyData">> ELSE <<>>)
             \o <<"PreSharedKey">>
        ELSE <<>>)
    \o cfg.extra_exts

\* the extension types of the ClientHello, in the order they are pushed
ClientHelloExtensions(resuming) ==
    <<"SupportedVersions", "ServerName", "ECPointFormats", "EllipticCurves",
      "SignatureAlgorithms", "ExtendedMasterSecret", "StatusRequest">>
    \o (IF cfg.ct_logs THEN <<"SCT">> ELSE <<>>)
    \o (IF support_tls13 THEN <<"KeyShare">> ELSE <<>>)
    \o (IF support_tls13 /\ cfg.enable_tickets
        THEN <<"PSKKeyExchangeModes">> ELSE <<>>)
    \o cfg.extra_exts
    \o (IF HasTls13Ticket(resuming)
        THEN IF OffersPsk(resuming)
             THEN (IF OffersEarlyData(resuming) THEN <<"EarlyData">>
                   ELSE <<>>)
                  \o <<"PreSharedKey">>
             ELSE <<>>
        ELSE IF cfg.enable_tickets THEN <<"SessionTicket">> ELSE <<>>)

\* the early-data tail of emit_client_hello_for_retry (hs.rs 499-540)
start_early_traffic(M) ==
    LET M1 == emit_fake_ccs(M)
        alg == SuiteHash(M1.hs.resuming_session.cipher_suite)
        client_hello_hash == get_hash_given(M1, alg, <<>>)
        client_early_traffic_secret ==
            derive(M1.sess.key_schedule, "ClientEarlyTrafficSecret",
                   client_hello_hash)
        M2 == set_message_encrypter(M1, client_early_traffic_secret)
    IN  [M2 EXCEPT !.sess.early_traffic = TRUE]

\* suites::KeyExchange::start_ecdhe(group): a fresh key pair for the group
start_ecdhe(group) == [group |-> group, keypair |-> "fresh"]

\* KeyShareEntry::new(group, share.pubkey): the entry of the key_share
\* extension that belongs to a retained share
KeyShareEntry(share) ==
    [group |-> share.group, payload |-> <<"pubkey", share.keypair>>]

\* ClientHelloDetails::has_key_share / find_key_share
has_key_share(M, group) ==
    \E i \in DOMAIN M.hs.offered_key_shares :
        M.hs.offered_key_shares[i].group = group

\* a faulty variant of ClientHelloGroups used to test C22: a share is built
\* for every supported group
ClientHelloGroupsAll == <<DEFAULT_GROUP, "OTHER_GROUP">>

\* the groups emit_client_hello_for_retry builds shares for (hs.rs 323)
ClientHelloGroups == <<DEFAULT_GROUP>>

\* the share loop of emit_client_hello_for_retry (hs.rs 325-341): a share
\* that was offered before is kept, a new one is started otherwise
client_hello_shares(M) ==
    [i \in DOMAIN ClientHelloGroups |->
        LET already == SelectSeq(M.hs.offered_key_shares,
                                 LAMBDA sh : sh.group = ClientHelloGroups[i])
        IN  IF already # <<>> THEN already[1]
            ELSE start_ecdhe(ClientHelloGroups[i])]

\* fn emit_client_hello_for_retry(sess, handshake, hello, retryreq)
emit_client_hello_for_retry(M, retry) ==
    IF retry
    THEN Panic(M, "assert retryreq.is_none()")
    ELSE
    LET resuming == find_session(M, M.hs.dns_name)
        M1 == [M EXCEPT
                 !.hs.resuming_session = resuming,
                 !.hs.offered_key_shares =
                     IF support_tls13 THEN client_hello_shares(M) ELSE <<>>,
                 !.hs.sent_key_shares =
                     IF support_tls13
                     THEN [i \in DOMAIN client_hello_shares(M) |->
                              KeyShareEntry(client_hello_shares(M)[i])]
                     ELSE <<>>,
                 !.hs.sent_extensions = ClientHelloExtensions(resuming),
                 !.sess.early_data =
                     IF OffersEarlyData(resuming) THEN "Ready" ELSE @]
        M2 == IF OffersPsk(resuming) THEN fill_in_psk_binder(M1) ELSE M1
        M3 == send_msg(add_message(M2, Msg("client", "ClientHello")),
                       "ClientHello", FALSE)
        M4 == IF M3.sess.early_data \in {"Ready", "Accepted"}
              THEN start_early_traffic(M3) ELSE M3
    IN  [M4 EXCEPT !.st =
            IF support_tls13
            THEN "ExpectServerHelloOrHelloRetryRequest"
            ELSE "ExpectServerHello"]

-----------------------------------------------------------------------------
(* The dispatcher's side of a delivery *)

\* the record as it arrived: under the installed read key, in state M.st
recv(M, typ, handled) ==
    [M EXCEPT !.wire = Append(@,
        [dir |-> "in", typ |-> typ,
         key |-> KeyLabel(M.sess.message_decrypter),
         at |-> M.st, handled |-> handled])]

\* State::handle(self, sess, m): the record reaches the handler of the
\* current state together with its payload
deliver(M, typ, m) ==
    [recv(M, typ, TRUE) EXCEPT
        !.rx = [typ |-> typ, m |-> m, pending |-> FALSE]]

\* the same when the record that carried the message also carried the start
\* of a further handshake message: pending is
\* !sess.common.handshake_joiner.is_empty() (hs.rs 87)
deliver_joined(M, typ, m, pending) ==
    [deliver(M, typ, m) EXCEPT !.rx.pending = pending]

\* a faulty variant of ExpectedTypes used to test C1: ExpectTLS13Finished
\* also lets a CertificateVerify through
ExpectedTypesLax(s) ==
    CASE s = "ExpectServerHelloOrHelloRetryRequest" ->
            {"ServerHello", "HelloRetryRequest"}
      [] s = "ExpectServerHello" -> {"ServerHello"}
      [] s = "ExpectTLS13EncryptedExtensions" -> {"EncryptedExtensions"}
      [] s = "ExpectTLS13CertificateOrCertReq" ->
            {"Certificate", "CertificateRequest"}
      [] s = "ExpectTLS13Certificate" -> {"Certificate"}
      [] s = "ExpectTLS13CertificateVerify" -> {"CertificateVerify"}
      [] s = "ExpectTLS13Finished" -> {"Finished", "CertificateVerify"}
      [] s = "ExpectTLS13Traffic" ->
            {"ApplicationData", "NewSessionTicket", "KeyUpdate"}
      [] OTHER -> {}

\* State::check_message of every state struct: the handshake types (and the
\* ApplicationData content type) the state accepts
ExpectedTypes(s) ==
    CASE s = "ExpectServerHelloOrHelloRetryRequest" ->
            {"ServerHello", "HelloRetryRequest"}
      [] s = "ExpectServerHello" -> {"ServerHello"}
      [] s = "ExpectTLS13EncryptedExtensions" -> {"EncryptedExtensions"}
      [] s = "ExpectTLS13CertificateOrCertReq" ->
            {"Certificate", "CertificateRequest"}
      [] s = "ExpectTLS13Certificate" -> {"Certificate"}
      [] s = "ExpectTLS13CertificateVerify" -> {"CertificateVerify"}
      [] s = "ExpectTLS13Finished" -> {"Finished"}
      [] s = "ExpectTLS13Traffic" ->
            {"ApplicationData", "NewSessionTicket", "KeyUpdate"}
      [] OTHER -> {}

\* check_handshake_message / check_message
check_message(s, typ) == typ \in ExpectedTypes(s)

\* the message types the handle() of a state can extract; any other type
\* that reached it would fail its extract_handshake!(..).unwrap()
Extracts(s) ==
    CASE s = "ExpectServerHelloOrHelloRetryRequest" ->
            {"ServerHello", "HelloRetryRequest"}
      [] s = "ExpectServerHello" -> {"ServerHello"}
      [] s = "ExpectTLS13EncryptedExtensions" -> {"EncryptedExtensions"}
      [] s = "ExpectTLS13CertificateOrCertReq" ->
            {"Certificate", "CertificateRequest"}
      [] s = "ExpectTLS13Certificate" -> {"Certificate"}
      [] s = "ExpectTLS13CertificateVerify" -> {"CertificateVerify"}
      [] s = "ExpectTLS13Finished" -> {"Finished"}
      [] s = "ExpectTLS13Traffic" ->
            {"ApplicationData", "NewSessionTicket", "KeyUpdate"}
      [] OTHER -> {}

-----------------------------------------------------------------------------
(* ExpectServerHello *)

ALLOWED_PLAINTEXT_EXTS == {"KeyShare", "PreSharedKey", "SupportedVersions"}

DISALLOWED_TLS13_EXTS ==
    {"ECPointFormats", "SessionTicket", "RenegotiationInfo",
     "ExtendedMasterSecret"}

Range(f) == {f[i] : i \in DOMAIN f}

\* a faulty variant of server_sent_unsolicited_extensions used to test C38:
\* a pre_shared_key extension the ClientHello did not carry is let through
server_sent_unsolicited_extensions_psk_allowed(M, exts, allowed_unsolicited) ==
    \E e \in exts :
        /\ e \notin Range(M.hs.sent_extensions)
        /\ e \notin allowed_unsolicited \cup {"PreSharedKey"}

\* ClientHelloDetails::server_sent_unsolicited_extensions
server_sent_unsolicited_extensions(M, exts, allowed_unsolicited) ==
    \E e \in exts :
        e \notin Range(M.hs.sent_extensions) /\ e \notin allowed_unsolicited

\* a well-formed TLS 1.3 ServerHello that selects no PSK
ServerHelloBase ==
    [legacy_version |-> "TLSv1_2", supported_versions |-> "TLSv1_3",
     compression |-> "Null", dup |-> FALSE,
     exts |-> {"KeyShare", "SupportedVersions"},
     cipher_suite |-> Suite256, psk_index |-> -1,
     key_share |-> DEFAULT_GROUP, decap_ok |-> TRUE,
     downgrade_marker |-> FALSE]

\* the ServerHello messages the peer may send: the well-formed ones and one
\* message per fault the handler looks for
ServerHellos ==
    {ServerHelloBase,
     [ServerHelloBase EXCEPT !.cipher_suite = Suite384],
     [ServerHelloBase EXCEPT !.psk_index = 0,
                             !.exts = @ \cup {"PreSharedKey"}],
     [ServerHelloBase EXCEPT !.psk_index = 0, !.cipher_suite = Suite384,
                             !.exts = @ \cup {"PreSharedKey"}],
     [ServerHelloBase EXCEPT !.psk_index = 1,
                             !.exts = @ \cup {"PreSharedKey"}],
     [ServerHelloBase EXCEPT !.key_share = "none",
                             !.exts = @ \ {"KeyShare"}],
     [ServerHelloBase EXCEPT !.key_share = "OTHER_GROUP"],
     [ServerHelloBase EXCEPT !.decap_ok = FALSE],
     [ServerHelloBase EXCEPT !.dup = TRUE],
     [ServerHelloBase EXCEPT !.exts = @ \cup {"Heartbeat"}],
     [ServerHelloBase EXCEPT !.exts = @ \cup {"ExtendedMasterSecret"}],
     [ServerHelloBase EXCEPT !.cipher_suite = "TLS_NOT_OFFERED"],
     [ServerHelloBase EXCEPT !.cipher_suite = Suite12],
     [ServerHelloBase EXCEPT !.compression = "Deflate"],
     [ServerHelloBase EXCEPT !.supported_versions = "none",
                             !.exts = @ \ {"SupportedVersions"},
                             !.cipher_suite = Suite12],
     [ServerHelloBase EXCEPT !.supported_versions = "none",
                             !.exts = @ \ {"SupportedVersions"},
                             !.exts = {}, !.key_share = "none",
                             !.cipher_suite = Suite12,
                             !.downgrade_marker = TRUE],
     [ServerHelloBase EXCEPT !.supported_versions = "TLSv1_2"],
     [ServerHelloBase EXCEPT !.legacy_version = "TLSv1_1",
                             !.supported_versions = "none",
                             !.exts = @ \ {"SupportedVersions"}]}

\* SupportedCipherSuite::can_resume_to
can_resume_to(from, to) ==
    /\ SuiteVersion(from) = SuiteVersion(to)
    /\ IF SuiteVersion(from) = "TLSv1_3"
       THEN SuiteHash(from) = SuiteHash(to) ELSE from = to

\* fn check_aligned_handshake: pending is !handshake_joiner.is_empty()
check_aligned_handshake(M, pending) ==
    IF pending THEN illegal_param(M, "keys changed with pending hs fragment")
    ELSE M

\* the decapsulation of the server's key share (hs.rs 662-665): a failure
\* returns the error without any alert
Decapsulate(M, m) ==
    IF m.decap_ok THEN M ELSE ReturnErr(M, "PeerMisbehavedError")

\* the secret kinds start_handshake_traffic installs (hs.rs 695-729)
ServerHelloReadKind == "ServerHandshakeTrafficSecret"
ServerHelloWriteKind == "ClientHandshakeTrafficSecret"

\* ServerHelloPayload::get_key_share: the server's share for its group
get_key_share(m) ==
    [group |-> m.key_share, payload |-> <<"ciphertext", m.key_share>>]

\* ClientHelloDetails::find_key_share(group)
find_key_share(M, group) ==
    LET i == CHOOSE i \in DOMAIN M.hs.offered_key_shares :
                M.hs.offered_key_shares[i].group = group
    IN  M.hs.offered_key_shares[i]

\* KeyExchange::decapsulate(payload): the shared secret of our share and the
\* server's ciphertext, one secret per group; a ciphertext made for another
\* group gives a secret the server does not have
decapsulate(our_key_share, payload) ==
    IF payload # <<"ciphertext", our_key_share.group>> THEN "kx_ss_mismatch"
    ELSE IF our_key_share.group = DEFAULT_GROUP THEN "kx_ss_default"
    ELSE "kx_ss_other"

\* a faulty variant of start_handshake_keys used to test C28: the write key
\* is installed before the read key and both are derived before the shared
\* secret is injected
start_handshake_keys_write_first(M, m, pending) ==
    IF m.key_share = "none" \/ ~has_key_share(M, m.key_share)
       \/ ~m.decap_ok \/ pending
    THEN ReturnErr(M, "PeerMisbehavedError")
    ELSE
    LET h == get_current_hash(M)
        read_key == derive(M.sess.key_schedule, "ServerHandshakeTrafficSecret",
                           h)
        write_key == derive(M.sess.key_schedule,
                            "ClientHandshakeTrafficSecret", h)
        M1 == [M EXCEPT
                 !.sess.kx_hint = m.key_share,
                 !.sess.key_schedule =
                     input_secret(@,
                        decapsulate(find_key_share(M, m.key_share),
                                    get_key_share(m).payload)),
                 !.hs.hash_at_client_recvd_server_hello = h,
                 !.sess.key_schedule.current_server_traffic_secret = read_key]
    IN  set_message_decrypter(set_message_encrypter(M1, write_key), read_key)

\* ExpectServerHello::start_handshake_traffic, the part after the PSK
\* decision (hs.rs 651-751)
start_handshake_keys(M, m, pending) ==
    IF m.key_share = "none"
    THEN ReturnErr(send_fatal_alert(M, "MissingExtension"),
                   "PeerMisbehavedError")
    ELSE IF ~has_key_share(M, m.key_share)
    THEN illegal_param(M, "wrong group for key share")
    ELSE IF Failed(Decapsulate(M, m)) THEN Decapsulate(M, m)
    ELSE
    LET their_key_share == get_key_share(m)
        our_key_share == find_key_share(M, their_key_share.group)
        shared == decapsulate(our_key_share, their_key_share.payload)
        M1 == [M EXCEPT
                 !.sess.kx_hint = their_key_share.group,
                 !.sess.key_schedule = input_secret(@, shared)]
    IN  IF pending THEN check_aligned_handshake(M1, pending)
        ELSE
        LET h == get_current_hash(M1)
            read_key == derive(M1.sess.key_schedule, ServerHelloReadKind, h)
            write_key == derive(M1.sess.key_schedule, ServerHelloWriteKind, h)
            M2 == [set_message_decrypter(M1, read_key) EXCEPT
                     !.hs.hash_at_client_recvd_server_hello = h,
                     !.sess.key_schedule.current_server_traffic_secret =
                         read_key]
        IN  set_message_encrypter(M2, write_key)

\* a faulty variant of start_handshake_traffic used to test C31: without a
\* selected PSK the resuming session and the binder's key schedule are kept
start_handshake_traffic_keep_psk(M, m, pending) ==
    IF m.psk_index >= 0 /\ M.hs.resuming_session.version = "none"
    THEN ReturnErr(M, "PeerMisbehavedError")
    ELSE IF m.psk_index > 0
    THEN ReturnErr(M, "PeerMisbehavedError")
    ELSE start_handshake_keys(
            [M EXCEPT !.sess.key_schedule =
                 IF @.alg = "none"
                 THEN input_empty(KeyScheduleNew(SuiteHash(M.sess.suite)))
                 ELSE @],
            m, pending)

\* ExpectServerHello::start_handshake_traffic
start_handshake_traffic(M, m, pending) ==
    IF m.psk_index >= 0
    THEN IF M.hs.resuming_session.version = "none"
         THEN ReturnErr(M, "PeerMisbehavedError")
         ELSE IF ~can_resume_to(M.hs.resuming_session.cipher_suite,
                                M.sess.suite)
         THEN ReturnErr(M, "PeerMisbehavedError")
         ELSE IF m.psk_index # 0
         THEN ReturnErr(M, "PeerMisbehavedError")
         ELSE start_handshake_keys(M, m, pending)
    ELSE start_handshake_keys(
            [M EXCEPT !.sess.early_data = "Rejected",
                      !.sess.early_traffic = FALSE,
                      !.sess.key_schedule =
                          input_empty(KeyScheduleNew(SuiteHash(M.sess.suite))),
                      !.hs.resuming_session = NoSession],
            m, pending)

\* fn validate_server_hello_tls13
validate_server_hello_tls13(M, m) ==
    IF \E e \in m.exts : e \notin ALLOWED_PLAINTEXT_EXTS
    THEN ReturnErr(send_fatal_alert(M, "UnsupportedExtension"),
                   "PeerMisbehavedError")
    ELSE M

\* the effective server version (hs.rs 812-818)
server_version(m) ==
    IF m.legacy_version = "TLSv1_2" /\ m.supported_versions # "none"
    THEN m.supported_versions ELSE m.legacy_version

\* a faulty variant of server_hello_suite used to test C17: the suite is not
\* looked up among the offered ones
server_hello_suite_any(M, m, pending) ==
    LET M1 == [M EXCEPT !.sess.suite = m.cipher_suite]
        M2 == add_message(start_hash(M1, SuiteHash(m.cipher_suite)),
                          Msg("server", "ServerHello"))
        M3 == start_handshake_traffic(M2, m, pending)
    IN  IF Failed(M3) THEN M3
        ELSE [emit_fake_ccs(M3) EXCEPT !.st = "ExpectTLS13EncryptedExtensions"]

\* a faulty variant of server_hello_suite used to test C21: a suite that was
\* fixed before is overwritten and the transcript hash restarted
server_hello_suite_varied(M, m, pending) ==
    IF m.cipher_suite \notin OfferedSuites
    THEN ReturnErr(send_fatal_alert(M, "HandshakeFailure"),
                   "PeerMisbehavedError")
    ELSE
    LET M1 == [M EXCEPT !.sess.suite = m.cipher_suite]
        M2 == add_message(start_hash(M1, SuiteHash(m.cipher_suite)),
                          Msg("server", "ServerHello"))
        M3 == start_handshake_traffic(M2, m, pending)
    IN  IF Failed(M3) THEN M3
        ELSE [emit_fake_ccs(M3) EXCEPT !.st = "ExpectTLS13EncryptedExtensions"]

\* ExpectServerHello::handle, from the suite selection on (hs.rs 890-926)
server_hello_suite(M, m, pending) ==
    IF m.cipher_suite \notin OfferedSuites
    THEN ReturnErr(send_fatal_alert(M, "HandshakeFailure"),
                   "PeerMisbehavedError")
    ELSE IF M.sess.suite \notin {"none", m.cipher_suite}
    THEN illegal_param(M, "server varied selected ciphersuite")
    ELSE
    LET M1 == [M EXCEPT !.sess.suite = m.cipher_suite]
    IN  IF SuiteVersion(m.cipher_suite) # M1.sess.negotiated_version
        THEN illegal_param(M1, "server chose unusable ciphersuite for version")
        ELSE
        LET M2 == add_message(start_hash(M1, SuiteHash(m.cipher_suite)),
                              Msg("server", "ServerHello"))
        IN  IF M2.sess.negotiated_version # "TLSv1_3"
            THEN Panic(M2, "unreachable: Don't support TLS 1.2 anymore")
            ELSE IF Failed(validate_server_hello_tls13(M2, m))
            THEN validate_server_hello_tls13(M2, m)
            ELSE
            LET M3 == start_handshake_traffic(M2, m, pending)
            IN  IF Failed(M3) THEN M3
                ELSE [emit_fake_ccs(M3) EXCEPT
                        !.st = "ExpectTLS13EncryptedExtensions"]

\* a faulty variant of server_hello_checks used to test C16: duplicate
\* extensions are not looked for
server_hello_checks_no_dup(M, m, pending) ==
    IF m.compression # "Null"
    THEN illegal_param(M, "server chose non-Null compression")
    ELSE IF server_sent_unsolicited_extensions(M, m.exts,
                                               {"RenegotiationInfo"})
    THEN ReturnErr(send_fatal_alert(M, "UnsupportedExtension"),
                   "PeerMisbehavedError")
    ELSE server_hello_suite(M, m, pending)

\* ExpectServerHello::handle, the checks that follow the version match
\* (hs.rs 850-888; the model's client offers no ALPN protocol and the
\* ServerHellos carry no ec_point_formats extension)
server_hello_checks(M, m, pending) ==
    IF m.compression # "Null"
    THEN illegal_param(M, "server chose non-Null compression")
    ELSE IF m.dup
    THEN ReturnErr(send_fatal_alert(M, "DecodeError"), "PeerMisbehavedError")
    ELSE IF server_sent_unsolicited_extensions(M, m.exts,
                                               {"RenegotiationInfo"})
    THEN ReturnErr(send_fatal_alert(M, "UnsupportedExtension"),
                   "PeerMisbehavedError")
    ELSE server_hello_suite(M, m, pending)

\* ExpectServerHello::handle
ExpectServerHello_handle(M, m, pending) ==
    IF server_version(m) = "TLSv1_3" /\ support_tls13
    THEN server_hello_checks(
            [M EXCEPT !.sess.negotiated_version = "TLSv1_3"], m, pending)
    ELSE IF server_version(m) = "TLSv1_2" /\ support_tls12
    THEN IF M.sess.early_data \in {"Ready", "Accepted"}
            /\ M.sess.early_traffic
         THEN ReturnErr(M, "PeerMisbehavedError")
         ELSE IF m.supported_versions # "none"
         THEN illegal_param(
                [M EXCEPT !.sess.negotiated_version = "TLSv1_2"],
                "server chose v1.2 using v1.3 extension")
         ELSE server_hello_checks(
                [M EXCEPT !.sess.negotiated_version = "TLSv1_2"], m, pending)
    ELSE ReturnErr(send_fatal_alert(M, "ProtocolVersion"),
                   "PeerIncompatibleError")

\* a ServerHello is delivered in ExpectServerHello or
\* ExpectServerHelloOrHelloRetryRequest (which delegates, hs.rs 1150-1151)
HandleServerHello ==
    /\ st \in {"ExpectServerHelloOrHelloRetryRequest", "ExpectServerHello"}
    /\ check_message(st, "ServerHello")
    /\ \E m \in ServerHellos : \E pending \in BOOLEAN :
          Commit(ExpectServerHello_handle(
                    deliver_joined(Cur, "ServerHello", m, pending),
                    m, pending))

\* fn start_handshake
StartHandshake ==
    /\ st = "Initial"
    /\ Commit(emit_client_hello_for_retry(Cur, FALSE))

-----------------------------------------------------------------------------
(* ExpectServerHelloOrHelloRetryRequest: HelloRetryRequest *)

\* a well-formed HelloRetryRequest: a cookie and a request for the supported
\* group the client sent no share for
HelloRetryRequestBase ==
    [cookie |-> "cookie", req_group |-> "OTHER_GROUP", unknown_ext |-> FALSE,
     dup |-> FALSE, supported_versions |-> "TLSv1_3",
     cipher_suite |-> Suite256]

HelloRetryRequests ==
    {HelloRetryRequestBase,
     [HelloRetryRequestBase EXCEPT !.req_group = "none"],
     [HelloRetryRequestBase EXCEPT !.req_group = DEFAULT_GROUP],
     [HelloRetryRequestBase EXCEPT !.cookie = "none"],
     [HelloRetryRequestBase EXCEPT !.cookie = "none",
                                   !.req_group = DEFAULT_GROUP],
     [HelloRetryRequestBase EXCEPT !.req_group = "UNSUPPORTED_GROUP"],
     [HelloRetryRequestBase EXCEPT !.cookie = "empty"],
     [HelloRetryRequestBase EXCEPT !.unknown_ext = TRUE],
     [HelloRetryRequestBase EXCEPT !.dup = TRUE],
     [HelloRetryRequestBase EXCEPT !.cookie = "none", !.req_group = "none"],
     [HelloRetryRequestBase EXCEPT !.supported_versions = "none"],
     [HelloRetryRequestBase EXCEPT !.cipher_suite = "TLS_NOT_OFFERED"]}

\* hash_hs::HandshakeHash::rollup_for_hrr: the buffered ClientHello becomes
\* the synthetic message_hash message
rollup_for_hrr(M) ==
    [M EXCEPT !.sess.hs_transcript = <<Msg("client", "MessageHash")>>]

\* ExpectServerHelloOrHelloRetryRequest::handle_hello_retry_request
handle_hello_retry_request(M, hrr) ==
    IF hrr.cookie = "none" /\ has_key_share(M, hrr.req_group)
    THEN illegal_param(M, "server requested hrr with our group")
    ELSE IF hrr.req_group # "none" /\ hrr.req_group \notin SupportedGroups
    THEN illegal_param(M, "server requested hrr with bad group")
    ELSE IF hrr.cookie = "empty"
    THEN illegal_param(M, "server requested hrr with empty cookie")
    ELSE IF hrr.unknown_ext
    THEN ReturnErr(send_fatal_alert(M, "UnsupportedExtension"),
                   "PeerIncompatibleError")
    ELSE IF hrr.dup
    THEN illegal_param(M, "server send duplicate hrr extensions")
    ELSE IF hrr.cookie = "none" /\ hrr.req_group = "none"
    THEN illegal_param(M, "server requested hrr with no changes")
    ELSE IF hrr.supported_versions # "TLSv1_3"
    THEN illegal_param(M, "server requested unsupported version in hrr")
    ELSE IF hrr.cipher_suite \notin OfferedSuites
    THEN illegal_param(M, "server requested unsupported cs in hrr")
    ELSE
    LET M1 == [M EXCEPT !.sess.negotiated_version = "TLSv1_3",
                        !.sess.suite = IF @ = "none" THEN hrr.cipher_suite
                                       ELSE @]
        M2 == add_message(
                rollup_for_hrr(start_hash(M1, SuiteHash(hrr.cipher_suite))),
                Msg("server", "HelloRetryRequest"))
        M3 == IF M2.sess.early_data \in {"Ready", "Accepted"}
              THEN [M2 EXCEPT !.sess.early_data = "Rejected"] ELSE M2
    IN  emit_client_hello_for_retry(M3, TRUE)

\* a HelloRetryRequest is delivered in ExpectServerHelloOrHelloRetryRequest
HandleHelloRetryRequest ==
    /\ st = "ExpectServerHelloOrHelloRetryRequest"
    /\ check_message(st, "HelloRetryRequest")
    /\ \E hrr \in HelloRetryRequests :
          Commit(handle_hello_retry_request(
                    deliver(Cur, "HelloRetryRequest", hrr), hrr))

-----------------------------------------------------------------------------
(* ExpectTLS13EncryptedExtensions *)

\* sess.config.alpn_protocols: the model's client offers none
alpn_protocols == {}

EncryptedExtensionsMsgs ==
    {[dup |-> FALSE, exts |-> {}],
     [dup |-> FALSE, exts |-> {"ServerName"}],
     [dup |-> FALSE, exts |-> {"EarlyData"}],
     [dup |-> TRUE, exts |-> {}],
     [dup |-> FALSE, exts |-> {"Heartbeat"}],
     [dup |-> FALSE, exts |-> {"ALProtocolNegotiation"}],
     [dup |-> FALSE, exts |-> {"KeyShare"}],
     [dup |-> FALSE, exts |-> {"ExtendedMasterSecret"}]}

\* fn validate_encrypted_extensions
validate_encrypted_extensions(M, m) ==
    IF m.dup
    THEN ReturnErr(send_fatal_alert(M, "DecodeError"), "PeerMisbehavedError")
    ELSE IF server_sent_unsolicited_extensions(M, m.exts, {})
    THEN ReturnErr(send_fatal_alert(M, "UnsupportedExtension"),
                   "PeerMisbehavedError")
    ELSE IF \E e \in m.exts :
                e \in ALLOWED_PLAINTEXT_EXTS \/ e \in DISALLOWED_TLS13_EXTS
    THEN ReturnErr(send_fatal_alert(M, "UnsupportedExtension"),
                   "PeerMisbehavedError")
    ELSE M

\* fn process_alpn_protocol
process_alpn_protocol(M, proto) ==
    IF proto # "none" /\ proto \notin alpn_protocols
    THEN illegal_param(M, "server sent non-offered ALPN protocol")
    ELSE M

\* ExpectTLS13EncryptedExtensions::handle, resumption branch
\* (hs.rs 1245-1274)
\* a faulty variant of encrypted_extensions_resume used to test C35: early
\* data counts as accepted whatever the server answered
encrypted_extensions_resume_always_accepted(M, m) ==
    [M EXCEPT !.sess.early_data =
                  IF M.sess.early_traffic THEN "Accepted" ELSE @,
              !.hs.client_auth = "None",
              !.hs.cert_verified = "assertion",
              !.hs.sig_verified = "assertion",
              !.st = "ExpectTLS13Finished"]

encrypted_extensions_resume(M, m) ==
    LET was_early_traffic == M.sess.early_traffic
        M1 == IF ~was_early_traffic THEN M
              ELSE IF "EarlyData" \in m.exts
              THEN [M EXCEPT !.sess.early_data = "Accepted"]
              ELSE [M EXCEPT !.sess.early_data = "Rejected",
                             !.sess.early_traffic = FALSE]
        write_key == derive(M1.sess.key_schedule,
                            "ClientHandshakeTrafficSecret",
                            M1.hs.hash_at_client_recvd_server_hello)
        M2 == IF was_early_traffic /\ ~M1.sess.early_traffic
              THEN [set_message_encrypter(M1, write_key) EXCEPT
                      !.sess.key_schedule.current_client_traffic_secret =
                          write_key]
              ELSE M1
    IN  [M2 EXCEPT !.hs.client_auth = "None",
                   !.hs.cert_verified = "assertion",
                   !.hs.sig_verified = "assertion",
                   !.st = "ExpectTLS13Finished"]

\* ExpectTLS13EncryptedExtensions::handle
ExpectTLS13EncryptedExtensions_handle(M, m) ==
    LET M1 == add_message(M, Msg("server", "EncryptedExtensions"))
        M2 == validate_encrypted_extensions(M1, m)
        M3 == process_alpn_protocol(M2,
                 IF "ALProtocolNegotiation" \in m.exts THEN "h2" ELSE "none")
    IN  IF Failed(M2) THEN M2
        ELSE IF Failed(M3) THEN M3
        ELSE IF M3.hs.resuming_session.version # "none"
        THEN encrypted_extensions_resume(M3, m)
        ELSE IF "EarlyData" \in m.exts
        THEN ReturnErr(M3, "PeerMisbehavedError")
        ELSE [M3 EXCEPT !.st = "ExpectTLS13CertificateOrCertReq"]

HandleEncryptedExtensions ==
    /\ st = "ExpectTLS13EncryptedExtensions"
    /\ check_message(st, "EncryptedExtensions")
    /\ \E m \in EncryptedExtensionsMsgs :
          Commit(ExpectTLS13EncryptedExtensions_handle(
                    deliver(Cur, "EncryptedExtensions", m), m))

-----------------------------------------------------------------------------
(* ExpectTLS13CertificateRequest *)

CertificateRequests ==
    {[context_empty |-> TRUE, compat_sigschemes |-> TRUE],
     [context_empty |-> FALSE, compat_sigschemes |-> TRUE],
     [context_empty |-> TRUE, compat_sigschemes |-> FALSE]}

\* ExpectTLS13CertificateRequest::handle; resolved is whether the
\* client_auth_cert_resolver returned a certificate
ExpectTLS13CertificateRequest_handle(M, certreq, resolved) ==
    LET M1 == add_message(M, Msg("server", "CertificateRequest"))
    IN  IF ~certreq.context_empty
        THEN ReturnErr(send_fatal_alert(M1, "DecodeError"),
                       "CorruptMessagePayload")
        ELSE IF ~certreq.compat_sigschemes
        THEN ReturnErr(send_fatal_alert(M1, "HandshakeFailure"),
                       "PeerIncompatibleError")
        ELSE [M1 EXCEPT !.hs.client_auth =
                            IF resolved THEN "Cert" ELSE "NoCert",
                        !.st = "ExpectTLS13Certificate"]

\* a CertificateRequest is delivered in ExpectTLS13CertificateOrCertReq,
\* which delegates to ExpectTLS13CertificateRequest (hs.rs 1606-1607)
HandleCertificateRequest ==
    /\ st = "ExpectTLS13CertificateOrCertReq"
    /\ check_message(st, "CertificateRequest")
    /\ \E certreq \in CertificateRequests : \E resolved \in BOOLEAN :
          Commit(ExpectTLS13CertificateRequest_handle(
                    deliver(Cur, "CertificateRequest", certreq),
                    certreq, resolved))

-----------------------------------------------------------------------------
(* ExpectTLS13Certificate *)

KemCertA == [kind |-> "kem", pk |-> "kem_pk_a"]
KemCertB == [kind |-> "kem", pk |-> "kem_pk_b"]
SigCert  == [kind |-> "sig", pk |-> "sig_pk"]

\* the shared secret of cert.encapsulate(): it is bound to the public key
KemSecret(pk) == IF pk = "kem_pk_a" THEN "kem_ss_a" ELSE "kem_ss_b"

KemSecrets == {"kem_ss_a", "kem_ss_b"}

\* a well-formed Certificate message whose chain the verifier accepts
CertificateBase ==
    [context_empty |-> TRUE, ext_bad |-> FALSE, scts |-> "none",
     chain |-> <<KemCertA>>, verdict |-> "ok"]

Certificates ==
    {CertificateBase,
     [CertificateBase EXCEPT !.chain = <<KemCertB>>],
     [CertificateBase EXCEPT !.chain = <<SigCert>>],
     [CertificateBase EXCEPT !.context_empty = FALSE],
     [CertificateBase EXCEPT !.ext_bad = TRUE],
     [CertificateBase EXCEPT !.scts = "valid"],
     [CertificateBase EXCEPT !.scts = "invalid"],
     [CertificateBase EXCEPT !.chain = <<>>,
                             !.verdict = "NoCertificatesPresented"],
     [CertificateBase EXCEPT !.verdict = "BadDER"],
     [CertificateBase EXCEPT !.verdict = "UnknownIssuer"]}

\* a faulty variant of send_cert_error_alert used to test C19: the
\* verifier's error is replaced by a general one
send_cert_error_alert_masked(M, e) ==
    ReturnErr(send_fatal_alert(M, "BadCertificate"), "General")

\* fn send_cert_error_alert
send_cert_error_alert(M, e) ==
    ReturnErr(send_fatal_alert(M,
                 CASE e = "BadDER" -> "DecodeError"
                   [] e = "PeerMisbehavedError" -> "IllegalParameter"
                   [] OTHER -> "BadCertificate"),
              e)

\* a faulty variant of clientkx_message used to test C6: the
\* ClientKeyExchange is sent but not hashed
clientkx_message_unhashed(M) == send_msg(M, "ClientKeyExchange", TRUE)

\* emit_clientkx, hs.rs 1329-1330: the ClientKeyExchange enters the
\* transcript and is sent encrypted
clientkx_message(M) ==
    send_msg(add_message(M, Msg("client", "ClientKeyExchange")),
             "ClientKeyExchange", TRUE)

\* a faulty variant of clientkx_ratchet used to test C4: the encapsulated
\* secret is not injected
clientkx_ratchet_no_secret(ks, shared_secret, h) == derive_with_hash(ks, h)

\* emit_clientkx, hs.rs 1333-1341: the encapsulated shared secret is
\* injected and the schedule is ratcheted over the transcript hash
clientkx_ratchet(ks, shared_secret, h) ==
    derive_with_hash(input_secret(ks, shared_secret), h)

\* a faulty variant of ClientKxWriteKind used to test C7: the write key stays
\* in the handshake epoch
ClientKxWriteKindStale == "ClientHandshakeTrafficSecret"

\* the secret kinds emit_clientkx installs (hs.rs 1347-1381)
ClientKxWriteKind == "ClientAuthenticatedHandshakeTrafficSecret"
ClientKxReadKind == "ServerAuthenticatedHandshakeTrafficSecret"

\* a faulty variant of emit_clientkx used to test C29: the key schedule is
\* ratcheted and the keys derived over the transcript hash taken before the
\* ClientKeyExchange is appended
emit_clientkx_ratchet_first(M, pending) ==
    IF Len(M.hs.cert_chain) = 0 \/ pending
    THEN Panic(M, "cert_chain[0]: index out of bounds")
    ELSE IF M.hs.cert_chain[1].kind # "kem"
    THEN Panic(M, "cert.is_kem_cert() / encapsulate().unwrap()")
    ELSE
    LET h == get_current_hash(M)
        M1 == [M EXCEPT !.sess.key_schedule =
                  clientkx_ratchet(@, KemSecret(M.hs.cert_chain[1].pk), h)]
        write_key == derive(M1.sess.key_schedule, ClientKxWriteKind, h)
        read_key == derive(M1.sess.key_schedule, ClientKxReadKind, h)
        M2 == clientkx_message(M1)
    IN  [set_message_decrypter(set_message_encrypter(M2, write_key),
                               read_key) EXCEPT
           !.sess.key_schedule.current_client_traffic_secret = write_key,
           !.sess.key_schedule.current_server_traffic_secret = read_key]

\* ExpectTLS13Certificate::emit_clientkx.  A certificate without a KEM key
\* fails debug_assert!(cert.is_kem_cert()) or encapsulate().unwrap(); a
\* pending handshake fragment fails check_aligned_handshake(..).unwrap()
\* after that function has sent its alert
emit_clientkx(M, pending) ==
    IF Len(M.hs.cert_chain) = 0
    THEN Panic(M, "cert_chain[0]: index out of bounds")
    ELSE
    LET cert == M.hs.cert_chain[1]
    IN  IF cert.kind # "kem"
        THEN Panic(M, "cert.is_kem_cert() / encapsulate().unwrap()")
        ELSE
        LET M1 == clientkx_message(M)
            h == get_current_hash(M1)
            M2 == [M1 EXCEPT !.sess.key_schedule =
                      clientkx_ratchet(@, KemSecret(cert.pk), h)]
        IN  IF pending
            THEN Panic(send_fatal_alert(M2, "IllegalParameter"),
                       "check_aligned_handshake(session).unwrap()")
            ELSE
            LET write_key == derive(M2.sess.key_schedule, ClientKxWriteKind, h)
                read_key == derive(M2.sess.key_schedule, ClientKxReadKind, h)
            IN  [set_message_decrypter(set_message_encrypter(M2, write_key),
                                       read_key) EXCEPT
                   !.sess.key_schedule.current_client_traffic_secret =
                       write_key,
                   !.sess.key_schedule.current_server_traffic_secret =
                       read_key]

\* SessionCommon::start_traffic
start_traffic(M) == [M EXCEPT !.sess.traffic = TRUE]

\* fn emit_finished_tls13
emit_finished_tls13(M, pending) ==
    LET verify_data == sign_finish(M.sess.key_schedule,
                          "ClientAuthenticatedHandshakeTrafficSecret",
                          get_current_hash(M))
        M1 == send_msg(add_message(
                         [M EXCEPT !.hs.client_verify_data = verify_data],
                         Msg("client", "Finished")),
                       "Finished", TRUE)
    IN  IF pending
        THEN Panic(send_fatal_alert(M1, "IllegalParameter"),
                   "assert!(check_aligned_handshake(sess).is_ok())")
        ELSE
        LET write_key == derive(M1.sess.key_schedule,
                                "ClientApplicationTrafficSecret",
                                get_current_hash(M1))
        IN  start_traffic(
              [set_message_encrypter(M1, write_key) EXCEPT
                 !.sess.key_schedule.current_client_traffic_secret =
                     write_key])

\* a faulty variant of certificate_respond used to test C2: the Finished is
\* emitted before the ClientKeyExchange
certificate_respond_swapped(M, pending) ==
    LET M1 == emit_finished_tls13(M, pending)
    IN  IF Failed(M1) THEN M1 ELSE emit_clientkx(M1, pending)

\* ExpectTLS13Certificate::handle, hs.rs 1440-1441
certificate_respond(M, pending) ==
    LET M1 == emit_clientkx(M, pending)
    IN  IF Failed(M1) THEN M1 ELSE emit_finished_tls13(M1, pending)

\* ServerCertVerifier::verify_server_cert: the verdict on the presented
\* chain; an empty chain is never accepted
verify_server_cert(m) ==
    IF Len(m.chain) = 0 THEN "NoCertificatesPresented" ELSE m.verdict

\* a faulty variant of ExpectTLS13Certificate::handle used to test C27: the
\* ClientKeyExchange and the Finished go out before the chain is verified
ExpectTLS13Certificate_handle_respond_first(M, m, pending) ==
    LET M1 == add_message(M, Msg("server", "Certificate"))
        M2 == [M1 EXCEPT !.hs.scts = m.scts, !.hs.cert_chain = m.chain]
        M3 == certificate_respond(M2, pending)
    IN  IF Failed(M3) THEN M3
        ELSE IF verify_server_cert(m) # "ok"
        THEN send_cert_error_alert(M3, verify_server_cert(m))
        ELSE [M3 EXCEPT !.hs.cert_verified = "verifier",
                        !.hs.sig_verified = "assertion",
                        !.st = "ExpectTLS13Finished"]

\* ExpectTLS13Certificate::handle
ExpectTLS13Certificate_handle(M, m, pending) ==
    LET M1 == add_message(M, Msg("server", "Certificate"))
    IN  IF ~m.context_empty
        THEN ReturnErr(send_fatal_alert(M1, "DecodeError"),
                       "CorruptMessagePayload")
        ELSE IF m.ext_bad
        THEN ReturnErr(send_fatal_alert(M1, "UnsupportedExtension"),
                       "PeerMisbehavedError")
        ELSE
        LET M2 == [M1 EXCEPT !.hs.scts = m.scts,
                             !.hs.cert_chain = m.chain]
        IN  IF m.scts = "invalid"
            THEN ReturnErr(M2, "PeerMisbehavedError")
            ELSE IF m.scts # "none" /\ ~cfg.ct_logs
            THEN ReturnErr(M2, "PeerMisbehavedError")
            ELSE IF verify_server_cert(m) # "ok"
            THEN send_cert_error_alert(M2, verify_server_cert(m))
            ELSE
            LET certv == [M2 EXCEPT !.hs.cert_verified = "verifier"]
                M3 == certificate_respond(certv, pending)
            IN  IF Failed(M3) THEN M3
                ELSE [M3 EXCEPT !.hs.sig_verified = "assertion",
                                !.st = "ExpectTLS13Finished"]

\* a Certificate is delivered in ExpectTLS13Certificate or in
\* ExpectTLS13CertificateOrCertReq (which delegates, hs.rs 1603-1604)
HandleCertificate ==
    /\ st \in {"ExpectTLS13CertificateOrCertReq", "ExpectTLS13Certificate"}
    /\ check_message(st, "Certificate")
    /\ \E m \in Certificates : \E pending \in BOOLEAN :
          Commit(ExpectTLS13Certificate_handle(
                    deliver_joined(Cur, "Certificate", m, pending),
                    m, pending))

-----------------------------------------------------------------------------
(* ExpectTLS13Finished *)

\* a faulty variant of FinishedMatches used to test C3: nothing is compared
FinishedMatchesAny(expect_verify_data, got) == TRUE

\* constant_time::verify_slices_are_equal (hs.rs 2525)
FinishedMatches(expect_verify_data, got) == expect_verify_data = got

\* a faulty variant of finished_mismatch used to test C5: the error is
\* returned without the alert
finished_mismatch_silent(M) == ReturnErr(M, "DecryptError")

\* the map_err arm of the comparison (hs.rs 2526-2529)
finished_mismatch(M) ==
    ReturnErr(send_fatal_alert(M, "DecryptError"), "DecryptError")

\* the key material of a peer that could not decapsulate the
\* ClientKeyExchange: every encapsulated secret is unknown to it
WithoutKem(inputs) ==
    [i \in DOMAIN inputs |->
        IF inputs[i].tag = "secret" /\ inputs[i].val \in KemSecrets
        THEN Ikm("secret", "unknown", NoHash) ELSE inputs[i]]

\* the verify_data a peer may put into its Finished: the MAC a peer holding
\* the whole key schedule computes over the transcript, the one of a peer
\* without the encapsulated secret, and one over a stale transcript
FinishedCandidates(M) ==
    LET ks == M.sess.key_schedule
        fk == ks.current_server_traffic_secret
        h == get_current_hash(M)
    IN  {[fk |-> fk, hash |-> h],
         [fk |-> [fk EXCEPT !.inputs = WithoutKem(@)], hash |-> h],
         [fk |-> fk, hash |-> M.hs.hash_at_client_recvd_server_hello],
         [fk |-> NoSecret, hash |-> h]}

\* a faulty variant of ExpectTLS13Finished::handle used to test C30: the
\* server application secret is derived before the key schedule is ratcheted
\* and over the transcript hash without the server Finished
ExpectTLS13Finished_handle_early_derive(M, finished) ==
    LET h0 == get_current_hash(M)
        expect_verify_data ==
            sign_finish(M.sess.key_schedule,
                        "ServerAuthenticatedHandshakeTrafficSecret", h0)
        M0 == [M EXCEPT !.hs.expect_verify_data = expect_verify_data,
                        !.hs.finished_verify_data = finished]
    IN  IF ~FinishedMatches(expect_verify_data, finished)
        THEN finished_mismatch(M0)
        ELSE
        LET read_key == derive(M0.sess.key_schedule,
                               "ServerApplicationTrafficSecret", h0)
            M1 == add_message(M0, Msg("server", "Finished"))
            ks == input_empty(M1.sess.key_schedule)
            exporter_secret == derive(ks, "ExporterMasterSecret",
                                      get_current_hash(M1))
        IN  [set_message_decrypter(M1, read_key) EXCEPT
               !.sess.key_schedule =
                   [ks EXCEPT !.current_server_traffic_secret = read_key,
                              !.current_exporter_secret = exporter_secret],
               !.hs.fin_verified = "compared",
               !.st = "ExpectTLS13Traffic"]

\* ExpectTLS13Finished::handle
ExpectTLS13Finished_handle(M, finished) ==
    LET expect_verify_data ==
            sign_finish(M.sess.key_schedule,
                        "ServerAuthenticatedHandshakeTrafficSecret",
                        get_current_hash(M))
        M0 == [M EXCEPT !.hs.expect_verify_data = expect_verify_data,
                        !.hs.finished_verify_data = finished]
    IN  IF ~FinishedMatches(expect_verify_data, finished)
        THEN finished_mismatch(M0)
        ELSE
        LET M1 == add_message(M0, Msg("server", "Finished"))
            ks == input_empty(M1.sess.key_schedule)
            h == get_current_hash(M1)
            read_key == derive(ks, "ServerApplicationTrafficSecret", h)
            exporter_secret == derive(ks, "ExporterMasterSecret", h)
        IN  [set_message_decrypter(M1, read_key) EXCEPT
               !.sess.key_schedule =
                   [ks EXCEPT !.current_server_traffic_secret = read_key,
                              !.current_exporter_secret = exporter_secret],
               !.hs.fin_verified = "compared",
               !.st = "ExpectTLS13Traffic"]

HandleFinished ==
    /\ st = "ExpectTLS13Finished"
    /\ check_message(st, "Finished")
    /\ \E finished \in FinishedCandidates(Cur) : \E pending \in BOOLEAN :
          Commit(ExpectTLS13Finished_handle(
                    deliver_joined(Cur, "Finished", finished, pending),
                    finished))

-----------------------------------------------------------------------------
(* ExpectTLS13Traffic *)

\* inbound records delivered in the traffic state so far
TrafficRx ==
    Cardinality({i \in DOMAIN wire :
                    wire[i].dir = "in" /\ wire[i].at = "ExpectTLS13Traffic"})

\* NewSessionTicketPayloadTLS13; max_early_data_size -1 stands for an absent
\* early_data extension
NewSessionTickets ==
    {[lifetime |-> 7200, age_add |-> 11, nonce |-> "nonce_a",
      ticket |-> "ticket_a", max_early_data_size |-> -1],
     [lifetime |-> 3600, age_add |-> 22, nonce |-> "nonce_b",
      ticket |-> "ticket_b", max_early_data_size |-> 0],
     [lifetime |-> 7200, age_add |-> 22, nonce |-> "nonce_a",
      ticket |-> "ticket_b", max_early_data_size |-> 1]}

\* KeySchedule::derive_ticket_psk(rms, nonce)
derive_ticket_psk(rms, nonce) ==
    [kind |-> "TicketPsk", inputs |-> <<rms, nonce>>, hash |-> NoHash]

\* ClientSessionValue::set_times(receipt_time, lifetime, age_add)
set_times(value, lifetime, age_add) ==
    [value EXCEPT !.lifetime = lifetime, !.age_add = age_add]

\* ClientSessionValue::set_max_early_data_size
set_max_early_data_size(value, sz) ==
    [value EXCEPT !.max_early_data_size = sz]

\* StoresClientSessions::put(key, value): worked is the store's answer
put(M, key, value, worked) ==
    IF worked THEN [M EXCEPT !.store[key] = value] ELSE M

\* KeySchedule::derive_next: the next generation of a traffic secret
derive_next(secret) ==
    [secret EXCEPT !.inputs = Append(@, Ikm("derived", "traffic upd", NoHash))]

\* SessionCommon::take_received_plaintext
take_received_plaintext(M) ==
    [M EXCEPT !.sess.received_plaintext = @ + 1]

\* a faulty variant of handle_new_ticket_tls13 used to test C24: the PSK is
\* the resumption master secret itself, the nonce is left out, and the two
\* times are swapped
handle_new_ticket_tls13_no_nonce(M, nst, worked) ==
    LET secret == derive(M.sess.key_schedule, "ResumptionMasterSecret",
                         get_current_hash(M))
        value == set_times(ClientSessionValue("TLSv1_3", M.sess.suite,
                                              nst.ticket, secret),
                           nst.age_add, nst.lifetime)
    IN  put(M, session_for_dns_name(M.hs.dns_name), value, worked)

\* a faulty variant of handle_new_ticket_tls13 used to test C39: the ticket
\* message is hashed into the transcript
handle_new_ticket_tls13_hashed(M, nst, worked) ==
    LET M1 == add_message(M, Msg("server", "NewSessionTicket"))
        secret == derive_ticket_psk(
                      derive(M1.sess.key_schedule, "ResumptionMasterSecret",
                             get_current_hash(M1)),
                      nst.nonce)
        value == set_times(ClientSessionValue("TLSv1_3", M1.sess.suite,
                                              nst.ticket, secret),
                           nst.lifetime, nst.age_add)
    IN  put(M1, session_for_dns_name(M1.hs.dns_name),
            IF nst.max_early_data_size >= 0
            THEN set_max_early_data_size(value, nst.max_early_data_size)
            ELSE value,
            worked)

\* ExpectTLS13Traffic::handle_new_ticket_tls13; worked is the result of
\* session_persistence.put
handle_new_ticket_tls13(M, nst, worked) ==
    LET handshake_hash == get_current_hash(M)
        resumption_master_secret ==
            derive(M.sess.key_schedule, "ResumptionMasterSecret",
                   handshake_hash)
        secret == derive_ticket_psk(resumption_master_secret, nst.nonce)
        value == set_times(ClientSessionValue("TLSv1_3", M.sess.suite,
                                              nst.ticket, secret),
                           nst.lifetime, nst.age_add)
        value1 == IF nst.max_early_data_size >= 0
                  THEN set_max_early_data_size(value,
                                               nst.max_early_data_size)
                  ELSE value
        key == session_for_dns_name(M.hs.dns_name)
    IN  put(M, key, value1, worked)

\* a faulty variant of handle_key_update used to test C25: a KeyUpdate sends
\* the machine back to waiting for the server Finished
handle_key_update_rehandshake(M, kur) ==
    [M EXCEPT !.st = "ExpectTLS13Finished"]

\* ExpectTLS13Traffic::handle_key_update and
\* SessionCommon::process_key_update(kur, ServerApplicationTrafficSecret):
\* the read side is ratcheted at once, a requested update of the write side
\* is noted and done before the next write
handle_key_update(M, kur) ==
    LET new_read_key ==
            derive_next(M.sess.key_schedule.current_server_traffic_secret)
    IN  [set_message_decrypter(M, new_read_key) EXCEPT
           !.sess.key_schedule.current_server_traffic_secret = new_read_key,
           !.sess.want_write_key_update =
               IF kur = "UpdateRequested" THEN TRUE ELSE @]

\* the write side of a requested key update: our own KeyUpdate goes out
\* under the old key, then the write key is ratcheted
do_write_key_update(M) ==
    LET new_write_key ==
            derive_next(M.sess.key_schedule.current_client_traffic_secret)
    IN  [set_message_encrypter(send_msg(M, "KeyUpdate", TRUE),
                               new_write_key) EXCEPT
           !.sess.key_schedule.current_client_traffic_secret = new_write_key,
           !.sess.want_write_key_update = FALSE]

\* a faulty variant of HandleApplicationData used to test C32: application
\* data is also taken while the server Finished is awaited
HandleApplicationDataEarly ==
    /\ st \in {"ExpectTLS13Finished", "ExpectTLS13Traffic"}
    /\ TrafficRx < MaxTraffic
    /\ Commit(take_received_plaintext(
                deliver(Cur, "ApplicationData", "data")))

HandleApplicationData ==
    /\ st = "ExpectTLS13Traffic" /\ TrafficRx < MaxTraffic
    /\ check_message(st, "ApplicationData")
    /\ Commit(take_received_plaintext(
                deliver(Cur, "ApplicationData", "data")))

HandleNewSessionTicket ==
    /\ st = "ExpectTLS13Traffic" /\ TrafficRx < MaxTraffic
    /\ check_message(st, "NewSessionTicket")
    /\ \E nst \in NewSessionTickets : \E worked \in BOOLEAN :
          Commit(handle_new_ticket_tls13(
                    deliver(Cur, "NewSessionTicket", nst), nst, worked))

HandleKeyUpdate ==
    /\ st = "ExpectTLS13Traffic" /\ TrafficRx < MaxTraffic
    /\ check_message(st, "KeyUpdate")
    /\ \E kur \in {"UpdateNotRequested", "UpdateRequested"} :
          Commit(handle_key_update(deliver(Cur, "KeyUpdate", kur), kur))

-----------------------------------------------------------------------------
(* The dispatcher: rejected records, the dead connection, user writes *)

\* a record whose type the current state's handler does not extract.  The
\* dispatcher asks check_message first: a rejected record is answered with
\* the unexpected_message alert and never reaches handle(); a record that
\* passed would fail the handler's extract_handshake!(..).unwrap()
DeliverOther ==
    /\ st \in LiveStates
    /\ st = "ExpectTLS13Traffic" => TrafficRx < MaxTraffic
    /\ \E typ \in InboundTypes \ Extracts(st) :
          IF check_message(st, typ)
          THEN Commit(Panic(recv(Cur, typ, TRUE),
                            "extract_handshake!(..).unwrap()"))
          ELSE Commit(ReturnErr(
                        send_fatal_alert(recv(Cur, typ, FALSE),
                                         "UnexpectedMessage"),
                        "InappropriateMessage"))

\* a record of any type arrives on a connection whose handler returned an
\* error: the state object was consumed by handle(), nothing is left to
\* deliver it to
DeliverAfterError ==
    /\ st = "Dead" /\ dead_rx < MaxDeadRx
    /\ dead_rx' = dead_rx + 1
    /\ UNCHANGED <<st, err, sess, hs, wire, store, cfg, rx, lookup>>

\* the user writes application data; it leaves once start_traffic was called
SendAppData ==
    /\ st \in LiveStates /\ sess.traffic
    /\ sess.sent_plaintext < MaxAppData
    /\ LET M == IF sess.want_write_key_update
                THEN do_write_key_update(Cur) ELSE Cur
       IN  Commit([send_msg(M, "ApplicationData", TRUE) EXCEPT
                     !.sess.sent_plaintext = @ + 1])

Next ==
    \/ StartHandshake
    \/ HandleServerHello
    \/ HandleHelloRetryRequest
    \/ HandleEncryptedExtensions
    \/ HandleCertificateRequest
    \/ HandleCertificate
    \/ HandleFinished
    \/ HandleApplicationData
    \/ HandleNewSessionTicket
    \/ HandleKeyUpdate
    \/ DeliverOther
    \/ DeliverAfterError
    \/ SendAppData

Spec == Init /\ [][Next]_vars

-----------------------------------------------------------------------------
(* The generated algorithm tables (src/rustls/src/generated) *)

\* the arms of the match in scheme_to_oid.rs, in order: the scheme and the
\* file of the DER blob it includes
SCHEME_TO_OID ==
    <<
      <<"DILITHIUM2", "alg-dilithium2.der">>,
      <<"DILITHIUM3", "alg-dilithium3.der">>,
      <<"DILITHIUM5", "alg-dilithium5.der">>,
      <<"FALCON512", "alg-falcon512.der">>,
      <<"FALCON1024", "alg-falcon1024.der">>,
      <<"RAINBOWICLASSIC", "alg-rainbowiclassic.der">>,
      <<"RAINBOWICIRCUMZENITHAL", "alg-rainbowicircumzenithal.der">>,
      <<"RAINBOWICOMPRESSED", "alg-rainbowicompressed.der">>,
      <<"RAINBOWIIICLASSIC", "alg-rainbowiiiclassic.der">>,
      <<"RAINBOWIIICIRCUMZENITHAL", "alg-rainbowiiicircumzenithal.der">>,
      <<"RAINBOWIIICOMPRESSED", "alg-rainbowiiicompressed.der">>,
      <<"RAINBOWVCLASSIC", "alg-rainbowvclassic.der">>,
      <<"RAINBOWVCIRCUMZENITHAL", "alg-rainbowvcircumzenithal.der">>,
      <<"RAINBOWVCOMPRESSED", "alg-rainbowvcompressed.der">>,
      <<"SPHINCSHARAKA128FSIMPLE", "alg-sphincsharaka128fsimple.der">>,
      <<"SPHINCSHARAKA128FROBUST", "alg-sphincsharaka128frobust.der">>,
      <<"SPHINCSHARAKA128SSIMPLE", "alg-sphincsharaka128ssimple.der">>,
      <<"SPHINCSHARAKA128SROBUST", "alg-sphincsharaka128srobust.der">>,
      <<"SPHINCSHARAKA192FSIMPLE", "alg-sphincsharaka192fsimple.der">>,
      <<"SPHINCSHARAKA192FROBUST", "alg-sphincsharaka192frobust.der">>,
      <<"SPHINCSHARAKA192SSIMPLE", "alg-sphincsharaka192ssimple.der">>,
      <<"SPHINCSHARAKA192SROBUST", "alg-sphincsharaka192srobust.der">>,
      <<"SPHINCSHARAKA256FSIMPLE", "alg-sphincsharaka256fsimple.der">>,
      <<"SPHINCSHARAKA256FROBUST", "alg-sphincsharaka256frobust.der">>,
      <<"SPHINCSHARAKA256SSIMPLE", "alg-sphincsharaka256ssimple.der">>,
      <<"SPHINCSHARAKA256SROBUST", "alg-sphincsharaka256srobust.der">>,
      <<"SPHINCSSHA256128FSIMPLE", "alg-sphincssha256128fsimple.der">>,
      <<"SPHINCSSHA256128FROBUST", "alg-sphincssha256128frobust.der">>,
      <<"SPHINCSSHA256128SSIMPLE", "alg-sphincssha256128ssimple.der">>,
      <<"SPHINCSSHA256128SROBUST", "alg-sphincssha256128srobust.der">>,
      <<"SPHINCSSHA256192FSIMPLE", "alg-sphincssha256192fsimple.der">>,
      <<"SPHINCSSHA256192FROBUST", "alg-sphincssha256192frobust.der">>,
      <<"SPHINCSSHA256192SSIMPLE", "alg-sphincssha256192ssimple.der">>,
      <<"SPHINCSSHA256192SROBUST", "alg-sphincssha256192srobust.der">>,
      <<"SPHINCSSHA256256FSIMPLE", "alg-sphincssha256256fsimple.der">>,
      <<"SPHINCSSHA256256FROBUST", "alg-sphincssha256256frobust.der">>,
      <<"SPHINCSSHA256256SSIMPLE", "alg-sphincssha256256ssimple.der">>,
      <<"SPHINCSSHA256256SROBUST", "alg-sphincssha256256srobust.der">>,
      <<"SPHINCSSHAKE256128FSIMPLE", "alg-sphincsshake256128fsimple.der">>,
      <<"SPHINCSSHAKE256128FROBUST", "alg-sphincsshake256128frobust.der">>,
      <<"SPHINCSSHAKE256128SSIMPLE", "alg-sphincsshake256128ssimple.der">>,
      <<"SPHINCSSHAKE256128SROBUST", "alg-sphincsshake256128srobust.der">>,
      <<"SPHINCSSHAKE256192FSIMPLE", "alg-sphincsshake256192fsimple.der">>,
      <<"SPHINCSSHAKE256192FROBUST", "alg-sphincsshake256192frobust.der">>,
      <<"SPHINCSSHAKE256192SSIMPLE", "alg-sphincsshake256192ssimple.der">>,
      <<"SPHINCSSHAKE256192SROBUST", "alg-sphincsshake256192srobust.der">>,
      <<"SPHINCSSHAKE256256FSIMPLE", "alg-sphincsshake256256fsimple.der">>,
      <<"SPHINCSSHAKE256256FROBUST", "alg-sphincsshake256256frobust.der">>,
      <<"SPHINCSSHAKE256256SSIMPLE", "alg-sphincsshake256256ssimple.der">>,
      <<"SPHINCSSHAKE256256SROBUST", "alg-sphincsshake256256srobust.der">>,
      <<"XMSS", "alg-xmss.der">>, <<"KEMTLS_KYBER512", "alg-kyber512.der">>,
      <<"KEMTLS_KYBER768", "alg-kyber768.der">>,
      <<"KEMTLS_KYBER1024", "alg-kyber1024.der">>,
      <<"KEMTLS_MCELIECE348864", "alg-mceliece348864.der">>,
      <<"KEMTLS_MCELIECE348864F", "alg-mceliece348864f.der">>,
      <<"KEMTLS_MCELIECE460896", "alg-mceliece460896.der">>,
      <<"KEMTLS_MCELIECE460896F", "alg-mceliece460896f.der">>,
      <<"KEMTLS_MCELIECE6688128", "alg-mceliece6688128.der">>,
      <<"KEMTLS_MCELIECE6688128F", "alg-mceliece6688128f.der">>,
      <<"KEMTLS_MCELIECE6960119", "alg-mceliece6960119.der">>,
      <<"KEMTLS_MCELIECE6960119F", "alg-mceliece6960119f.der">>,
      <<"KEMTLS_MCELIECE8192128", "alg-mceliece8192128.der">>,
      <<"KEMTLS_MCELIECE8192128F", "alg-mceliece8192128f.der">>,
      <<"KEMTLS_LIGHTSABER", "alg-lightsaber.der">>,
      <<"KEMTLS_SABER", "alg-saber.der">>,
      <<"KEMTLS_FIRESABER", "alg-firesaber.der">>,
      <<"KEMTLS_NTRUHPS2048509", "alg-ntruhps2048509.der">>,
      <<"KEMTLS_NTRUHPS2048677", "alg-ntruhps2048677.der">>,
      <<"KEMTLS_NTRUHPS4096821", "alg-ntruhps4096821.der">>,
      <<"KEMTLS_NTRUHRSS701", "alg-ntruhrss701.der">>,
      <<"KEMTLS_NTRULPR653", "alg-ntrulpr653.der">>,
      <<"KEMTLS_NTRULPR761", "alg-ntrulpr761.der">>,
      <<"KEMTLS_NTRULPR857", "alg-ntrulpr857.der">>,
      <<"KEMTLS_SNTRUP653", "alg-sntrup653.der">>,
      <<"KEMTLS_SNTRUP761", "alg-sntrup761.der">>,
      <<"KEMTLS_SNTRUP857", "alg-sntrup857.der">>,
      <<"KEMTLS_FRODOKEM640AES", "alg-frodokem640aes.der">>,
      <<"KEMTLS_FRODOKEM640SHAKE", "alg-frodokem640shake.der">>,
      <<"KEMTLS_FRODOKEM976AES", "alg-frodokem976aes.der">>,
      <<"KEMTLS_FRODOKEM976SHAKE", "alg-frodokem976shake.der">>,
      <<"KEMTLS_FRODOKEM1344AES", "alg-frodokem1344aes.der">>,
      <<"KEMTLS_FRODOKEM1344SHAKE", "alg-frodokem1344shake.der">>,
      <<"KEMTLS_SIKEP434", "alg-sikep434.der">>,
      <<"KEMTLS_SIKEP434COMPRESSED", "alg-sikep434compressed.der">>,
      <<"KEMTLS_SIKEP503", "alg-sikep503.der">>,
      <<"KEMTLS_SIKEP503COMPRESSED", "alg-sikep503compressed.der">>,
      <<"KEMTLS_SIKEP610", "alg-sikep610.der">>,
      <<"KEMTLS_SIKEP610COMPRESSED", "alg-sikep610compressed.der">>,
      <<"KEMTLS_SIKEP751", "alg-sikep751.der">>,
      <<"KEMTLS_SIKEP751COMPRESSED", "alg-sikep751compressed.der">>,
      <<"KEMTLS_BIKEL1FO", "alg-bikel1fo.der">>,
      <<"KEMTLS_BIKEL3FO", "alg-bikel3fo.der">>
    >>

\* the PQ signature scheme list of pq_sigschemes.rs
PQ_SIGSCHEMES ==
    <<
      "DILITHIUM2", "DILITHIUM3", "DILITHIUM5", "FALCON512", "FALCON1024",
      "RAINBOWICLASSIC", "RAINBOWICIRCUMZENITHAL", "RAINBOWICOMPRESSED",
      "RAINBOWIIICLASSIC", "RAINBOWIIICIRCUMZENITHAL",
      "RAINBOWIIICOMPRESSED", "RAINBOWVCLASSIC", "RAINBOWVCIRCUMZENITHAL",
      "RAINBOWVCOMPRESSED", "SPHINCSHARAKA128FSIMPLE",
      "SPHINCSHARAKA128FROBUST", "SPHINCSHARAKA128SSIMPLE",
      "SPHINCSHARAKA128SROBUST", "SPHINCSHARAKA192FSIMPLE",
      "SPHINCSHARAKA192FROBUST", "SPHINCSHARAKA192SSIMPLE",
      "SPHINCSHARAKA192SROBUST", "SPHINCSHARAKA256FSIMPLE",
      "SPHINCSHARAKA256FROBUST", "SPHINCSHARAKA256SSIMPLE",
      "SPHINCSHARAKA256SROBUST", "SPHINCSSHA256128FSIMPLE",
      "SPHINCSSHA256128FROBUST", "SPHINCSSHA256128SSIMPLE",
      "SPHINCSSHA256128SROBUST", "SPHINCSSHA256192FSIMPLE",
      "SPHINCSSHA256192FROBUST", "SPHINCSSHA256192SSIMPLE",
      "SPHINCSSHA256192SROBUST", "SPHINCSSHA256256FSIMPLE",
      "SPHINCSSHA256256FROBUST", "SPHINCSSHA256256SSIMPLE",
      "SPHINCSSHA256256SROBUST", "SPHINCSSHAKE256128FSIMPLE",
      "SPHINCSSHAKE256128FROBUST", "SPHINCSSHAKE256128SSIMPLE",
      "SPHINCSSHAKE256128SROBUST", "SPHINCSSHAKE256192FSIMPLE",
      "SPHINCSSHAKE256192FROBUST", "SPHINCSSHAKE256192SSIMPLE",
      "SPHINCSSHAKE256192SROBUST", "SPHINCSSHAKE256256FSIMPLE",
      "SPHINCSSHAKE256256FROBUST", "SPHINCSSHAKE256256SSIMPLE",
      "SPHINCSSHAKE256256SROBUST", "XMSS"
    >>

\* SUPPORTED_SIG_ALGS of supported_sigalgs.rs, by the names of the webpki
\* algorithms
SUPPORTED_SIG_ALGS ==
    <<
      "ECDSA_P256_SHA256", "ECDSA_P256_SHA384", "ECDSA_P384_SHA256",
      "ECDSA_P384_SHA384", "ED25519", "RSA_PSS_2048_8192_SHA256_LEGACY_KEY",
      "RSA_PSS_2048_8192_SHA384_LEGACY_KEY",
      "RSA_PSS_2048_8192_SHA512_LEGACY_KEY", "RSA_PKCS1_2048_8192_SHA256",
      "RSA_PKCS1_2048_8192_SHA384", "RSA_PKCS1_2048_8192_SHA512",
      "RSA_PKCS1_3072_8192_SHA384", "DILITHIUM2", "DILITHIUM3", "DILITHIUM5",
      "FALCON512", "FALCON1024", "RAINBOWICLASSIC", "RAINBOWICIRCUMZENITHAL",
      "RAINBOWICOMPRESSED", "RAINBOWIIICLASSIC", "RAINBOWIIICIRCUMZENITHAL",
      "RAINBOWIIICOMPRESSED", "RAINBOWVCLASSIC", "RAINBOWVCIRCUMZENITHAL",
      "RAINBOWVCOMPRESSED", "SPHINCSHARAKA128FSIMPLE",
      "SPHINCSHARAKA128FROBUST", "SPHINCSHARAKA128SSIMPLE",
      "SPHINCSHARAKA128SROBUST", "SPHINCSHARAKA192FSIMPLE",
      "SPHINCSHARAKA192FROBUST", "SPHINCSHARAKA192SSIMPLE",
      "SPHINCSHARAKA192SROBUST", "SPHINCSHARAKA256FSIMPLE",
      "SPHINCSHARAKA256FROBUST", "SPHINCSHARAKA256SSIMPLE",
      "SPHINCSHARAKA256SROBUST", "SPHINCSSHA256128FSIMPLE",
      "SPHINCSSHA256128FROBUST", "SPHINCSSHA256128SSIMPLE",
      "SPHINCSSHA256128SROBUST", "SPHINCSSHA256192FSIMPLE",
      "SPHINCSSHA256192FROBUST", "SPHINCSSHA256192SSIMPLE",
      "SPHINCSSHA256192SROBUST", "SPHINCSSHA256256FSIMPLE",
      "SPHINCSSHA256256FROBUST", "SPHINCSSHA256256SSIMPLE",
      "SPHINCSSHA256256SROBUST", "SPHINCSSHAKE256128FSIMPLE",
      "SPHINCSSHAKE256128FROBUST", "SPHINCSSHAKE256128SSIMPLE",
      "SPHINCSSHAKE256128SROBUST", "SPHINCSSHAKE256192FSIMPLE",
      "SPHINCSSHAKE256192FROBUST", "SPHINCSSHAKE256192SSIMPLE",
      "SPHINCSSHAKE256192SROBUST", "SPHINCSSHAKE256256FSIMPLE",
      "SPHINCSSHAKE256256FROBUST", "SPHINCSSHAKE256256SSIMPLE",
      "SPHINCSSHAKE256256SROBUST", "XMSS"
    >>

\* the arms of a match that name the scheme
MatchingArms(table, scheme) ==
    {i \in DOMAIN table : table[i][1] = scheme}

\* a faulty variant of scheme_to_oid used to test C40: the arms of the
\* KEMTLS_* codepoints are missing
scheme_to_oid_signatures_only(scheme) ==
    LET table == SubSeq(SCHEME_TO_OID, 1, Len(PQ_SIGSCHEMES))
    IN  IF MatchingArms(table, scheme) = {} THEN "unreachable"
        ELSE table[CHOOSE i \in MatchingArms(table, scheme) :
                      \A j \in MatchingArms(table, scheme) : i <= j][2]

\* the match of scheme_to_oid.rs: the blob of the first arm that names the
\* scheme; every other scheme reaches the unreachable!() of the last arm
scheme_to_oid(scheme) ==
    IF MatchingArms(SCHEME_TO_OID, scheme) = {} THEN "unreachable"
    ELSE SCHEME_TO_OID[CHOOSE i \in MatchingArms(SCHEME_TO_OID, scheme) :
            \A j \in MatchingArms(SCHEME_TO_OID, scheme) : i <= j][2]

\* the entries of a list that name the scheme
Entries(list, scheme) == {i \in DOMAIN list : list[i] = scheme}

\* the codepoints the tables are asked for: the PQ signature schemes, the
\* KEMTLS_* KEM codepoints and three schemes that are neither
PqSignatureCodepoints ==
    {
     "DILITHIUM2", "DILITHIUM3", "DILITHIUM5", "FALCON512", "FALCON1024",
     "RAINBOWICLASSIC", "RAINBOWICIRCUMZENITHAL", "RAINBOWICOMPRESSED",
     "RAINBOWIIICLASSIC", "RAINBOWIIICIRCUMZENITHAL", "RAINBOWIIICOMPRESSED",
     "RAINBOWVCLASSIC", "RAINBOWVCIRCUMZENITHAL", "RAINBOWVCOMPRESSED",
     "SPHINCSHARAKA128FSIMPLE", "SPHINCSHARAKA128FROBUST",
     "SPHINCSHARAKA128SSIMPLE", "SPHINCSHARAKA128SROBUST",
     "SPHINCSHARAKA192FSIMPLE", "SPHINCSHARAKA192FROBUST",
     "SPHINCSHARAKA192SSIMPLE", "SPHINCSHARAKA192SROBUST",
     "SPHINCSHARAKA256FSIMPLE", "SPHINCSHARAKA256FROBUST",
     "SPHINCSHARAKA256SSIMPLE", "SPHINCSHARAKA256SROBUST",
     "SPHINCSSHA256128FSIMPLE", "SPHINCSSHA256128FROBUST",
     "SPHINCSSHA256128SSIMPLE", "SPHINCSSHA256128SROBUST",
     "SPHINCSSHA256192FSIMPLE", "SPHINCSSHA256192FROBUST",
     "SPHINCSSHA256192SSIMPLE", "SPHINCSSHA256192SROBUST",
     "SPHINCSSHA256256FSIMPLE", "SPHINCSSHA256256FROBUST",
     "SPHINCSSHA256256SSIMPLE", "SPHINCSSHA256256SROBUST",
     "SPHINCSSHAKE256128FSIMPLE", "SPHINCSSHAKE256128FROBUST",
     "SPHINCSSHAKE256128SSIMPLE", "SPHINCSSHAKE256128SROBUST",
     "SPHINCSSHAKE256192FSIMPLE", "SPHINCSSHAKE256192FROBUST",
     "SPHINCSSHAKE256192SSIMPLE", "SPHINCSSHAKE256192SROBUST",
     "SPHINCSSHAKE256256FSIMPLE", "SPHINCSSHAKE256256FROBUST",
     "SPHINCSSHAKE256256SSIMPLE", "SPHINCSSHAKE256256SROBUST", "XMSS"
    }

KemCodepoints ==
    {
     "KEMTLS_KYBER512", "KEMTLS_KYBER768", "KEMTLS_KYBER1024",
     "KEMTLS_MCELIECE348864", "KEMTLS_MCELIECE348864F",
     "KEMTLS_MCELIECE460896", "KEMTLS_MCELIECE460896F",
     "KEMTLS_MCELIECE6688128", "KEMTLS_MCELIECE6688128F",
     "KEMTLS_MCELIECE6960119", "KEMTLS_MCELIECE6960119F",
     "KEMTLS_MCELIECE8192128", "KEMTLS_MCELIECE8192128F",
     "KEMTLS_LIGHTSABER", "KEMTLS_SABER", "KEMTLS_FIRESABER",
     "KEMTLS_NTRUHPS2048509", "KEMTLS_NTRUHPS2048677",
     "KEMTLS_NTRUHPS4096821", "KEMTLS_NTRUHRSS701", "KEMTLS_NTRULPR653",
     "KEMTLS_NTRULPR761", "KEMTLS_NTRULPR857", "KEMTLS_SNTRUP653",
     "KEMTLS_SNTRUP761", "KEMTLS_SNTRUP857", "KEMTLS_FRODOKEM640AES",
     "KEMTLS_FRODOKEM640SHAKE", "KEMTLS_FRODOKEM976AES",
     "KEMTLS_FRODOKEM976SHAKE", "KEMTLS_FRODOKEM1344AES",
     "KEMTLS_FRODOKEM1344SHAKE", "KEMTLS_SIKEP434",
     "KEMTLS_SIKEP434COMPRESSED", "KEMTLS_SIKEP503",
     "KEMTLS_SIKEP503COMPRESSED", "KEMTLS_SIKEP610",
     "KEMTLS_SIKEP610COMPRESSED", "KEMTLS_SIKEP751",
     "KEMTLS_SIKEP751COMPRESSED", "KEMTLS_BIKEL1FO", "KEMTLS_BIKEL3FO"
    }

ClassicalCodepoints == {"ED25519", "ECDSA_NISTP256_SHA256", "RSA_PSS_SHA256"}

LookupSchemes ==
    PqSignatureCodepoints \cup KemCodepoints \cup ClassicalCodepoints

\* one codepoint is looked up: nothing of the connection is touched
TableInit ==
    /\ st = "Initial"
    /\ err = "none"
    /\ sess = InitSess
    /\ hs = InitHs
    /\ wire = <<>>
    /\ cfg = CHOOSE c \in Configs : c.extra_exts = ExtraExts
    /\ store = [k \in StoreKeys |-> NoSession]
    /\ dead_rx = 0
    /\ rx = NoMessage
    /\ \E scheme \in LookupSchemes :
          lookup = [NoLookup EXCEPT !.scheme = scheme]

\* the DER AlgorithmIdentifier of the scheme is asked for
SchemeToOid ==
    /\ lookup.oid = "none"
    /\ lookup' = [lookup EXCEPT
                    !.oid = scheme_to_oid(lookup.scheme),
                    !.arms = Cardinality(MatchingArms(SCHEME_TO_OID,
                                                      lookup.scheme))]
    /\ UNCHANGED <<st, err, sess, hs, wire, store, cfg, dead_rx, rx>>

\* the scheme is looked for in the PQ signature scheme list
FindPqSigScheme ==
    /\ lookup.listed = -1
    /\ lookup' = [lookup EXCEPT
                    !.listed = Cardinality(Entries(PQ_SIGSCHEMES,
                                                   lookup.scheme))]
    /\ UNCHANGED <<st, err, sess, hs, wire, store, cfg, dead_rx, rx>>

\* the verification algorithm of the scheme is looked for in
\* SUPPORTED_SIG_ALGS
FindSupportedSigAlg ==
    /\ lookup.verify = -1
    /\ lookup' = [lookup EXCEPT
                    !.verify = Cardinality(Entries(SUPPORTED_SIG_ALGS,
                                                   lookup.scheme))]
    /\ UNCHANGED <<st, err, sess, hs, wire, store, cfg, dead_rx, rx>>

TableNext ==
    \/ SchemeToOid
    \/ FindPqSigScheme
    \/ FindSupportedSigAlg

TableSpec == TableInit /\ [][TableNext]_vars

-----------------------------------------------------------------------------
(* Properties *)

Last(seq) == seq[Len(seq)]

\* the accepted set of every state, as the specification lists them
C1_AcceptedSet(s) ==
    CASE s = "ExpectServerHelloOrHelloRetryRequest" ->
            {"ServerHello", "HelloRetryRequest"}
      [] s = "ExpectServerHello" -> {"ServerHello"}
      [] s = "ExpectTLS13EncryptedExtensions" -> {"EncryptedExtensions"}
      [] s = "ExpectTLS13CertificateOrCertReq" ->
            {"Certificate", "CertificateRequest"}
      [] s = "ExpectTLS13Certificate" -> {"Certificate"}
      [] s = "ExpectTLS13Finished" -> {"Finished"}
      [] s = "ExpectTLS13Traffic" ->
            {"ApplicationData", "NewSessionTicket", "KeyUpdate"}
      [] OTHER -> {}

\* C1: a record is passed to the handler of a state only if its type is in
\* that state's accepted set; a record of any other type is not handled, it
\* is answered with the unexpected_message alert and the unexpected-message
\* error, and it is the last thing that happened on the connection.
C1_OnlyAcceptedTypesHandled ==
    \A i \in DOMAIN wire :
        wire[i].dir = "in" =>
            /\ wire[i].handled <=> wire[i].typ \in C1_AcceptedSet(wire[i].at)
            /\ ~wire[i].handled =>
                  /\ i = Len(wire)
                  /\ st = "Dead" /\ err = "InappropriateMessage"
                  /\ Len(sess.alerts) > 0
                  /\ Last(sess.alerts) = "UnexpectedMessage"

\* C1 witness: a handshake that got past the ServerHello and then received a
\* record its state does not accept
C1_Witness ==
    /\ st = "Dead" /\ err = "InappropriateMessage"
    /\ Len(wire) >= 3
    /\ \E i \in DOMAIN wire : wire[i].dir = "in" /\ wire[i].handled
    /\ ~Last(wire).handled /\ Last(wire).at = "ExpectTLS13Finished"

\* a handshake that reached the traffic state with a chain the verifier
\* accepted: the KEMTLS flow (no PSK was selected, no HelloRetryRequest)
KemtlsSuccess == st = "ExpectTLS13Traffic" /\ hs.cert_verified = "verifier"

\* <<direction, type>> of every record on the wire, in wire order
WireTypes == [i \in DOMAIN wire |-> <<wire[i].dir, wire[i].typ>>]

IsFlight(e) == e[2] # "ChangeCipherSpec"

IsHandshakeFlight(e) ==
    e[2] \notin {"ChangeCipherSpec", "ApplicationData", "NewSessionTicket",
                 "KeyUpdate"}

Prefix(seq, n) == SubSeq(seq, 1, IF n < Len(seq) THEN n ELSE Len(seq))

KemtlsOrder ==
    << <<"out", "ClientHello">>, <<"in", "ServerHello">>,
       <<"in", "EncryptedExtensions">>, <<"in", "Certificate">>,
       <<"out", "ClientKeyExchange">>, <<"out", "Finished">>,
       <<"in", "Finished">> >>

KemtlsOrderWithCertReq ==
    << <<"out", "ClientHello">>, <<"in", "ServerHello">>,
       <<"in", "EncryptedExtensions">>, <<"in", "CertificateRequest">>,
       <<"in", "Certificate">>, <<"out", "ClientKeyExchange">>,
       <<"out", "Finished">>, <<"in", "Finished">> >>

NoCertificateVerify ==
    \A i \in DOMAIN wire : wire[i].typ # "CertificateVerify"

\* C2 as stated: in a successful KEMTLS handshake the records (the
\* compatibility ChangeCipherSpec aside) are exactly ClientHello,
\* ServerHello, EncryptedExtensions, Certificate, ClientKeyExchange, client
\* Finished, server Finished, and application data only after those; no
\* CertificateVerify.
C2_Original ==
    KemtlsSuccess =>
        /\ Prefix(SelectSeq(WireTypes, IsFlight), 7) = KemtlsOrder
        /\ NoCertificateVerify

\* C2: in a successful KEMTLS handshake the handshake messages are
\* ClientHello, ServerHello, EncryptedExtensions, an optional
\* CertificateRequest, Certificate, ClientKeyExchange, client Finished,
\* server Finished, in this order; application data is received only after
\* the server Finished (the client may send its own once its Finished is
\* out); no CertificateVerify is sent or accepted.
C2_KemtlsOrder ==
    KemtlsSuccess =>
        /\ Prefix(SelectSeq(WireTypes, IsHandshakeFlight), 8)
              \in {KemtlsOrder, KemtlsOrderWithCertReq}
        /\ \A i, j \in DOMAIN wire :
              /\ wire[i].dir = "in" /\ wire[i].typ = "ApplicationData"
              /\ wire[j].dir = "in" /\ wire[j].typ = "Finished"
              => j < i
        /\ \A i, j \in DOMAIN wire :
              /\ wire[i].dir = "out" /\ wire[i].typ = "ApplicationData"
              /\ wire[j].dir = "out" /\ wire[j].typ = "Finished"
              => j < i
        /\ NoCertificateVerify

\* C2 witness: a successful KEMTLS handshake with a CertificateRequest, in
\* which the client wrote application data before the server Finished came
\* and then received application data
C2_Witness ==
    /\ KemtlsSuccess
    /\ \E i \in DOMAIN wire : wire[i].typ = "CertificateRequest"
    /\ \E i, j \in DOMAIN wire :
          /\ i < j
          /\ wire[i].dir = "out" /\ wire[i].typ = "ApplicationData"
          /\ wire[j].dir = "in" /\ wire[j].typ = "Finished"
    /\ sess.received_plaintext > 0

PskSelected == hs.resuming_session.version # "none"

\* C3 as stated: the traffic state is reached only after the Finished
\* comparison and a verified chain or a selected PSK, and each of the three
\* tokens carried into it comes from a check that was performed.
C3_Original ==
    st = "ExpectTLS13Traffic" =>
        /\ hs.fin_verified = "compared"
        /\ hs.finished_verify_data = hs.expect_verify_data
        /\ hs.cert_verified = "verifier" \/ PskSelected
        /\ hs.cert_verified = "verifier"
        /\ hs.sig_verified = "verifier"

\* C3: the traffic state is reached only after the received verify_data was
\* compared equal to the expected one, and only with a chain the verifier
\* accepted in this handshake or with the offered PSK selected.  The
\* verified-finished token comes from that comparison; the verified-cert
\* token comes from the verifier, or is asserted when the PSK was selected;
\* the verified-signature token is always asserted without a check.
C3_TrafficOnlyAfterChecks ==
    st = "ExpectTLS13Traffic" =>
        /\ hs.fin_verified = "compared"
        /\ hs.finished_verify_data = hs.expect_verify_data
        /\ \/ /\ hs.cert_verified = "verifier" /\ ~PskSelected
              /\ \E i \in DOMAIN wire :
                    /\ wire[i].dir = "in" /\ wire[i].typ = "Certificate"
                    /\ wire[i].handled
           \/ /\ hs.cert_verified = "assertion" /\ PskSelected
              /\ "PreSharedKey" \in Range(hs.sent_extensions)
        /\ hs.sig_verified = "assertion"

\* C3 witness: the traffic state reached by resumption, with an asserted
\* verified-cert token
C3_Witness ==
    /\ st = "ExpectTLS13Traffic" /\ PskSelected
    /\ hs.cert_verified = "assertion" /\ hs.fin_verified = "compared"

HasInput(secret, val) ==
    \E i \in DOMAIN secret.inputs :
        secret.inputs[i] = Ikm("secret", val, NoHash)

\* C4: in the KEMTLS flow the expected verify_data is keyed by a schedule
\* that holds the secret encapsulated to the verified end-entity key, and a
\* Finished is accepted only if its MAC is keyed the same way.
C4_FinishedDependsOnKemSecret ==
    KemtlsSuccess =>
        /\ HasInput(hs.expect_verify_data.fk,
                    KemSecret(hs.cert_chain[1].pk))
        /\ HasInput(hs.finished_verify_data.fk,
                    KemSecret(hs.cert_chain[1].pk))
        /\ ~HasInput(hs.finished_verify_data.fk, "unknown")

\* C4 witness: a KEMTLS handshake with the second KEM key completed
C4_Witness ==
    /\ KemtlsSuccess /\ hs.cert_chain[1].pk = "kem_pk_b"
    /\ HasInput(hs.finished_verify_data.fk, "kem_ss_b")

\* the step in which ExpectTLS13Finished handles a Finished whose
\* verify_data differs from the expected one
FinishedMismatchStep ==
    /\ st = "ExpectTLS13Finished"
    /\ Len(wire') > Len(wire)
    /\ wire'[Len(wire) + 1].dir = "in"
    /\ wire'[Len(wire) + 1].typ = "Finished"
    /\ wire'[Len(wire) + 1].handled
    /\ hs'.finished_verify_data # hs'.expect_verify_data

\* C5: a Finished with a wrong verify_data is answered with the
\* decrypt_error alert and DecryptError; the transcript, the key schedule
\* and the read key stay as they were and the traffic state is not entered.
C5_FinishedMismatch ==
    [][FinishedMismatchStep =>
          /\ sess'.alerts = Append(sess.alerts, "DecryptError")
          /\ err' = "DecryptError"
          /\ sess'.hs_transcript = sess.hs_transcript
          /\ sess'.key_schedule = sess.key_schedule
          /\ sess'.message_decrypter = sess.message_decrypter
          /\ st' # "ExpectTLS13Traffic"]_vars

\* C5 witness: a KEMTLS handshake that failed on the server Finished
C5_Witness ==
    /\ st = "Dead" /\ err = "DecryptError"
    /\ Last(wire).typ = "Finished" /\ Last(wire).dir = "in"
    /\ hs.finished_verify_data # hs.expect_verify_data
    /\ hs.cert_verified = "verifier"
    /\ Last(sess.alerts) = "DecryptError"

IsHandshakeEntry(e) ==
    e.typ \notin {"ChangeCipherSpec", "ApplicationData", "NewSessionTicket",
                  "KeyUpdate"}

\* the handshake messages on the wire, in wire order, as transcript entries
WireHandshake ==
    LET w == SelectSeq(wire, IsHandshakeEntry)
    IN  [i \in DOMAIN w |->
            Msg(IF w[i].dir = "out" THEN "client" ELSE "server", w[i].typ)]

Count(seq, x) == Cardinality({i \in DOMAIN seq : seq[i] = x})

\* C6: when the traffic state is reached the transcript is the sequence of
\* the handshake messages sent and received, in wire order; each of them is
\* in it exactly once.
C6_TranscriptIsWireOrder ==
    st = "ExpectTLS13Traffic" =>
        /\ sess.hs_transcript = WireHandshake
        /\ \A x \in {Msg("client", "ClientHello"), Msg("server", "ServerHello"),
                     Msg("server", "EncryptedExtensions"),
                     Msg("server", "Finished")} :
              Count(sess.hs_transcript, x) = 1
        /\ Count(sess.hs_transcript, Msg("server", "CertificateRequest")) <= 1
        /\ hs.cert_verified = "verifier" =>
              \A x \in {Msg("server", "Certificate"),
                        Msg("client", "ClientKeyExchange"),
                        Msg("client", "Finished")} :
                  Count(sess.hs_transcript, x) = 1

\* C6 witness: the traffic state reached by a KEMTLS handshake with a
\* CertificateRequest: eight messages in the transcript
C6_Witness ==
    /\ st = "ExpectTLS13Traffic"
    /\ Len(sess.hs_transcript) = 8
    /\ Count(sess.hs_transcript, Msg("server", "CertificateRequest")) = 1
    /\ Count(sess.hs_transcript, Msg("client", "ClientKeyExchange")) = 1

\* the epoch of a record key
Epoch(label) ==
    CASE label = "plain" -> 0
      [] label = "ClientEarlyTrafficSecret" -> 1
      [] label \in {"ClientHandshakeTrafficSecret",
                    "ServerHandshakeTrafficSecret"} -> 2
      [] label \in {"ClientAuthenticatedHandshakeTrafficSecret",
                    "ServerAuthenticatedHandshakeTrafficSecret"} -> 3
      [] label \in {"ClientApplicationTrafficSecret",
                    "ServerApplicationTrafficSecret"} -> 4

EpochsNeverGoBack ==
    /\ Epoch(KeyLabel(sess'.message_encrypter))
          >= Epoch(KeyLabel(sess.message_encrypter))
    /\ Epoch(KeyLabel(sess'.message_decrypter))
          >= Epoch(KeyLabel(sess.message_decrypter))

\* the keys after ServerHello and those of the client's own flight
KeysOfClientFlight ==
    /\ st = "ExpectTLS13EncryptedExtensions" =>
          /\ KeyLabel(sess.message_decrypter) = "ServerHandshakeTrafficSecret"
          /\ KeyLabel(sess.message_encrypter) = "ClientHandshakeTrafficSecret"
    /\ \A i \in DOMAIN wire :
          /\ wire[i].typ = "ClientKeyExchange" =>
                wire[i].key = "ClientHandshakeTrafficSecret"
          /\ wire[i].dir = "out" /\ wire[i].typ = "Finished" =>
                wire[i].key = "ClientAuthenticatedHandshakeTrafficSecret"
          /\ wire[i].dir = "out" /\ wire[i].typ = "ApplicationData" =>
                wire[i].key = "ClientApplicationTrafficSecret"
          /\ wire[i].dir = "in" /\ wire[i].typ = "ApplicationData"
                /\ wire[i].handled =>
                wire[i].key = "ServerApplicationTrafficSecret"

\* C7 as stated: the keys follow the epochs, and the server Finished is
\* always received under the server authenticated-handshake key.
C7_Original ==
    /\ [](/\ KeysOfClientFlight
          /\ st = "ExpectTLS13Finished" =>
                KeyLabel(sess.message_decrypter) =
                    "ServerAuthenticatedHandshakeTrafficSecret"
          /\ \A i \in DOMAIN wire :
                wire[i].dir = "in" /\ wire[i].typ = "Finished"
                   /\ wire[i].handled =>
                wire[i].key = "ServerAuthenticatedHandshakeTrafficSecret")
    /\ [][EpochsNeverGoBack]_vars

\* C7: after ServerHello the read key is the server handshake key and the
\* write key the client handshake key; ClientKeyExchange goes out under the
\* client handshake key and the client Finished under the client
\* authenticated-handshake key; the server Finished is received under the
\* server authenticated-handshake key in a certificate handshake and under
\* the server handshake key when the PSK was selected; application data
\* written after the client Finished and read in the traffic state is under
\* application keys; neither direction returns to an earlier epoch.
C7_EpochKeys ==
    /\ [](/\ KeysOfClientFlight
          /\ st = "ExpectTLS13Finished" =>
                KeyLabel(sess.message_decrypter) =
                    IF PskSelected THEN "ServerHandshakeTrafficSecret"
                    ELSE "ServerAuthenticatedHandshakeTrafficSecret"
          /\ \A i \in DOMAIN wire :
                wire[i].dir = "in" /\ wire[i].typ = "Finished"
                   /\ wire[i].handled =>
                wire[i].key =
                    IF PskSelected THEN "ServerHandshakeTrafficSecret"
                    ELSE "ServerAuthenticatedHandshakeTrafficSecret")
    /\ [][EpochsNeverGoBack]_vars

\* C7 witness: a resumed handshake whose server Finished came under the
\* server handshake key, followed by application data
C7_Witness ==
    /\ st = "ExpectTLS13Traffic" /\ PskSelected
    /\ \E i \in DOMAIN wire :
          /\ wire[i].dir = "in" /\ wire[i].typ = "Finished"
          /\ wire[i].key = "ServerHandshakeTrafficSecret"
    /\ Last(wire).typ = "ApplicationData"
    /\ Last(wire).key = "ServerApplicationTrafficSecret"

\* C8 as stated: no handler returns an error without having sent a fatal
\* alert first.
C8_AlertBeforeError == st = "Dead" => Len(sess.alerts) > 0

\* C9: once a handler has returned an error no state object is left, and no
\* later step changes the state, the transcript, the keys or the wire.
C9_ErrorsTerminal ==
    /\ [](err # "none" => st \notin LiveStates)
    /\ [][err # "none" =>
            /\ st' = st /\ err' = err /\ sess' = sess /\ hs' = hs
            /\ wire' = wire /\ store' = store]_vars

\* C9 witness: a record arrived after a handler had returned an error in the
\* middle of a handshake
C9_Witness ==
    /\ st = "Dead" /\ dead_rx > 0
    /\ err = "PeerMisbehavedError"
    /\ Len(sess.hs_transcript) >= 3

\* C10 as stated: with a verified end-entity certificate that carries no KEM
\* key the client sends no ClientKeyExchange and goes on to expect the
\* CertificateVerify.
C10_SignedCertExpectsCertificateVerify ==
    (hs.cert_verified = "verifier" /\ hs.cert_chain[1].kind = "sig") =>
        /\ st \in {"ExpectTLS13CertificateVerify", "ExpectTLS13Finished",
                   "ExpectTLS13Traffic"}
        /\ \A i \in DOMAIN wire : wire[i].typ # "ClientKeyExchange"

\* a HelloRetryRequest that asks for a change the client can make: a
\* non-empty cookie or a supported group it sent no share for, known
\* extensions only, TLS 1.3 and an offered suite
C11_ValidHrr(hrr) ==
    /\ hrr.cookie \in {"cookie", "none"}
    /\ hrr.req_group \in (SupportedGroups \ {DEFAULT_GROUP}) \cup {"none"}
    /\ hrr.cookie # "none" \/ hrr.req_group # "none"
    /\ ~hrr.unknown_ext /\ ~hrr.dup
    /\ hrr.supported_versions = "TLSv1_3"
    /\ hrr.cipher_suite \in OfferedSuites

\* the ClientHello records the client has sent
ClientHellosSent ==
    Cardinality({i \in DOMAIN wire :
                    wire[i].dir = "out" /\ wire[i].typ = "ClientHello"})

\* C11 as stated: once a valid HelloRetryRequest was handled the suite is
\* the one it names, the transcript is message_hash, HelloRetryRequest and
\* the second ClientHello, a second ClientHello with a share for the
\* requested group is on the wire, and the client expects a ServerHello only.
C11_HrrAnsweredWithSecondClientHello ==
    (rx.typ = "HelloRetryRequest" /\ C11_ValidHrr(rx.m)) =>
        /\ st = "ExpectServerHello"
        /\ sess.suite = rx.m.cipher_suite
        /\ sess.hs_transcript =
              <<Msg("client", "MessageHash"),
                Msg("server", "HelloRetryRequest"),
                Msg("client", "ClientHello")>>
        /\ ClientHellosSent = 2
        /\ rx.m.req_group # "none" =>
              \E i \in DOMAIN hs.offered_key_shares :
                  hs.offered_key_shares[i].group = rx.m.req_group

\* C12 as stated: a HelloRetryRequest that asks for a group the client sent
\* a share for, or that asks for no change, is rejected with
\* PeerMisbehavedError, with or without a cookie.
C12_OfferedGroupOrNoChangeRejected ==
    (/\ rx.typ = "HelloRetryRequest"
     /\ \/ rx.m.req_group = DEFAULT_GROUP
        \/ rx.m.cookie = "none" /\ rx.m.req_group = "none") =>
        /\ st = "Dead" /\ err = "PeerMisbehavedError"
        /\ sess.suite = "none"

\* C13 as stated: a handshake in which the PSK was selected enters the
\* traffic state with the client Finished sent, the client application
\* traffic secret derived and installed as the write key, and start_traffic
\* called.
C13_ResumedHandshakeSendsClientFinished ==
    (st = "ExpectTLS13Traffic" /\ PskSelected) =>
        /\ \E i \in DOMAIN wire :
              wire[i].dir = "out" /\ wire[i].typ = "Finished"
        /\ sess.key_schedule.current_client_traffic_secret.kind =
              "ClientApplicationTrafficSecret"
        /\ KeyLabel(sess.message_encrypter) = "ClientApplicationTrafficSecret"
        /\ sess.traffic

\* the server asked for client authentication in this handshake
ClientAuthRequested ==
    \E i \in DOMAIN wire :
        /\ wire[i].dir = "in" /\ wire[i].typ = "CertificateRequest"
        /\ wire[i].handled

\* C14 as stated: a handshake in which a CertificateRequest was received
\* completes only after the client has sent its Certificate and its
\* CertificateVerify, both encrypted.
C14_ClientAuthAnswered ==
    (st = "ExpectTLS13Traffic" /\ ClientAuthRequested) =>
        \A typ \in {"Certificate", "CertificateVerify"} :
            \E i \in DOMAIN wire :
                /\ wire[i].dir = "out" /\ wire[i].typ = typ
                /\ wire[i].key # "plain"

\* the handler answered the last message with a fatal alert and an error
FatalAlertAndFailure == st = "Dead" /\ err # "none" /\ Len(sess.alerts) > 0

\* the handled message carries an extension the ClientHello did not ask for
UnsolicitedInHello ==
    /\ rx.typ \in {"ServerHello", "EncryptedExtensions"}
    /\ \E e \in rx.m.exts : e \notin Range(hs.sent_extensions)

\* an entry of the handled Certificate message carries an unknown extension,
\* or an SCT list although the ClientHello had no SCT extension
UnsolicitedInCertificate ==
    /\ rx.typ = "Certificate"
    /\ \/ rx.m.ext_bad
       \/ rx.m.scts # "none" /\ "SCT" \notin Range(hs.sent_extensions)

\* C15 as stated: an unsolicited extension in a ServerHello, in
\* EncryptedExtensions or in an entry of the Certificate message (an SCT list
\* without configured CT logs included) is answered with a fatal alert and
\* the handshake fails.
C15_UnsolicitedExtensionIsFatal ==
    (UnsolicitedInHello \/ UnsolicitedInCertificate) => FatalAlertAndFailure

\* the step in which a ServerHello is passed to ExpectServerHello::handle
ServerHelloStep ==
    /\ st \in {"ExpectServerHelloOrHelloRetryRequest", "ExpectServerHello"}
    /\ Len(wire') > Len(wire)
    /\ wire'[Len(wire) + 1].dir = "in"
    /\ wire'[Len(wire) + 1].typ = "ServerHello"
    /\ wire'[Len(wire) + 1].handled
    /\ rx'.typ = "ServerHello"

\* the ServerHello gets past the version match and the compression check,
\* the two checks that come before the extension checks (hs.rs 820-848)
PassesVersionAndCompression(m) ==
    /\ \/ server_version(m) = "TLSv1_3" /\ support_tls13
       \/ /\ server_version(m) = "TLSv1_2" /\ support_tls12
          /\ ~(sess.early_data \in {"Ready", "Accepted"} /\ sess.early_traffic)
          /\ m.supported_versions = "none"
    /\ m.compression = "Null"

\* the handler left the suite and the transcript hash unset and installed no
\* record key
NothingNegotiated ==
    /\ sess'.suite = "none"
    /\ sess'.hash_alg = "none"
    /\ sess'.hs_transcript = sess.hs_transcript
    /\ sess'.key_schedule = sess.key_schedule
    /\ sess'.message_decrypter = NoSecret
    /\ sess'.message_encrypter = sess.message_encrypter
    /\ KeyLabel(sess'.message_encrypter) \in {"plain", "ClientEarlyTrafficSecret"}

\* C16: a ServerHello (of a version the client accepts and with null
\* compression, the two checks made before) that contains the same extension
\* type more than once is answered with the decode_error alert and
\* PeerMisbehavedError; no transcript hash is started, no suite is set and no
\* key is installed.
C16_DuplicateExtensionRejected ==
    [][(ServerHelloStep /\ rx'.m.dup /\ PassesVersionAndCompression(rx'.m)) =>
          /\ sess'.alerts = Append(sess.alerts, "DecodeError")
          /\ st' = "Dead" /\ err' = "PeerMisbehavedError"
          /\ NothingNegotiated]_vars

\* C16 witness: a connection that died on a ServerHello with duplicate
\* extensions while the early-data key was installed
C16_Witness ==
    /\ rx.typ = "ServerHello" /\ rx.m.dup
    /\ st = "Dead" /\ err = "PeerMisbehavedError"
    /\ sess.alerts = <<"DecodeError">>
    /\ KeyLabel(sess.message_encrypter) = "ClientEarlyTrafficSecret"

\* the ServerHello gets past every check made before the suite lookup
PassesExtensionChecks(m) ==
    /\ PassesVersionAndCompression(m)
    /\ ~m.dup
    /\ \A e \in m.exts :
          e \in Range(hs.sent_extensions) \/ e = "RenegotiationInfo"

\* C17: a ServerHello (that got past the checks made before the suite
\* lookup) whose cipher suite is not among the offered ones ends in
\* PeerMisbehavedError, after the handshake_failure alert; the suite, the
\* transcript hash and the record keys are left as they were.
C17_SuiteNotOfferedRejected ==
    [][(/\ ServerHelloStep
        /\ rx'.m.cipher_suite \notin OfferedSuites
        /\ PassesExtensionChecks(rx'.m)) =>
          /\ st' = "Dead" /\ err' = "PeerMisbehavedError"
          /\ sess'.alerts = Append(sess.alerts, "HandshakeFailure")
          /\ NothingNegotiated]_vars

\* C17 witness: a connection that died on a ServerHello naming a suite that
\* was not offered
C17_Witness ==
    /\ rx.typ = "ServerHello" /\ rx.m.cipher_suite \notin OfferedSuites
    /\ st = "Dead" /\ err = "PeerMisbehavedError"
    /\ sess.alerts = <<"HandshakeFailure">>
    /\ sess.suite = "none" /\ sess.hash_alg = "none"

\* C18 as stated: a ServerHello that selects a PSK index other than 0 is
\* answered with a fatal alert and an error, and no handshake traffic key is
\* installed.
C18_BadPskIndexIsFatal ==
    (rx.typ = "ServerHello" /\ rx.m.psk_index > 0) =>
        /\ FatalAlertAndFailure
        /\ sess.message_decrypter = NoSecret
        /\ KeyLabel(sess.message_encrypter) \in
              {"plain", "ClientEarlyTrafficSecret"}

\* the step in which a Certificate message is passed to
\* ExpectTLS13Certificate::handle
CertificateStep ==
    /\ st \in {"ExpectTLS13CertificateOrCertReq", "ExpectTLS13Certificate"}
    /\ Len(wire') > Len(wire)
    /\ wire'[Len(wire) + 1].dir = "in"
    /\ wire'[Len(wire) + 1].typ = "Certificate"
    /\ wire'[Len(wire) + 1].handled
    /\ rx'.typ = "Certificate"

C20_DowngradeMarkerIsFatal ==
    (/\ rx.typ = "ServerHello" /\ support_tls13
     /\ server_version(rx.m) = "TLSv1_2" /\ rx.m.downgrade_marker) =>
        FatalAlertAndFailure

\* the result of ExpectServerHello::handle for the ServerHello m when the
\* suite s was fixed before it arrived
ServerHelloAfterFixedSuite(s, m) ==
    ExpectServerHello_handle(
        deliver([Cur EXCEPT !.sess.suite = s,
                            !.sess.hash_alg = SuiteHash(s)],
                "ServerHello", m),
        m, FALSE)

\* the transcript hash algorithm is the one of the suite, and a started hash
\* means a known suite
HashMatchesSuite ==
    /\ sess.hash_alg # "none" =>
          sess.suite # "none" /\ sess.hash_alg = SuiteHash(sess.suite)
    /\ st \in LiveStates /\ sess.suite # "none" =>
          sess.hash_alg = SuiteHash(sess.suite)
    /\ st \in LiveStates
          \ {"ExpectServerHelloOrHelloRetryRequest", "ExpectServerHello"} =>
          sess.hash_alg # "none"

\* a ServerHello that names another suite than the fixed one is refused with
\* illegal_parameter, and suite and hash algorithm stay as they were
VariedSuiteRejected ==
    st \in {"ExpectServerHelloOrHelloRetryRequest", "ExpectServerHello"} =>
        \A s \in {Suite256, Suite384} : \A m \in ServerHellos :
            (/\ PassesExtensionChecks(m)
             /\ m.cipher_suite \in OfferedSuites
             /\ m.cipher_suite # s) =>
                LET R == ServerHelloAfterFixedSuite(s, m)
                IN  /\ R.st = "Dead" /\ R.err = "PeerMisbehavedError"
                    /\ R.sess.alerts = Append(sess.alerts, "IllegalParameter")
                    /\ R.sess.suite = s
                    /\ R.sess.hash_alg = SuiteHash(s)

ClientHelloSent == ClientHellosSent > 0

\* C22: every ClientHello that offers TLS 1.3 carries one key_share entry,
\* for the default group, and exactly the share it belongs to is retained in
\* offered_key_shares; a ClientHello that does not offer TLS 1.3 has no
\* key_share extension and retains no share.
C22_OneKeyShare ==
    ClientHelloSent =>
        IF support_tls13
        THEN /\ Count(hs.sent_extensions, "KeyShare") = 1
             /\ Len(hs.sent_key_shares) = 1
             /\ hs.sent_key_shares[1].group = DEFAULT_GROUP
             /\ Len(hs.offered_key_shares) = 1
             /\ KeyShareEntry(hs.offered_key_shares[1]) = hs.sent_key_shares[1]
        ELSE /\ Count(hs.sent_extensions, "KeyShare") = 0
             /\ hs.sent_key_shares = <<>>
             /\ hs.offered_key_shares = <<>>

\* C22 witness: a TLS 1.3 handshake in which the server's share for the
\* default group was accepted
C22_Witness ==
    /\ support_tls13 /\ st = "ExpectTLS13EncryptedExtensions"
    /\ sess.kx_hint = DEFAULT_GROUP
    /\ Len(hs.offered_key_shares) = 1

\* the positions of the extra extensions in the ClientHello
ExtraExtPositions ==
    {i \in DOMAIN hs.sent_extensions :
        hs.sent_extensions[i] \in Range(cfg.extra_exts)}

\* C23: in every ClientHello all the extra extensions the caller passed are
\* present and stand before pre_shared_key, and pre_shared_key, when
\* present, is the last extension.
C23_PskExtensionLast ==
    ClientHelloSent =>
        /\ Cardinality(ExtraExtPositions) = Len(cfg.extra_exts)
        /\ \A i \in DOMAIN hs.sent_extensions :
              hs.sent_extensions[i] = "PreSharedKey" =>
                  /\ i = Len(hs.sent_extensions)
                  /\ \A j \in ExtraExtPositions : j < i

\* C23 witness: a ClientHello with an extra extension, early_data and
\* pre_shared_key
C23_Witness ==
    /\ ClientHelloSent /\ cfg.extra_exts # <<>>
    /\ "EarlyData" \in Range(hs.sent_extensions)
    /\ Last(hs.sent_extensions) = "PreSharedKey"

\* a NewSessionTicket is handled in the traffic state
NewSessionTicketStep ==
    /\ st = "ExpectTLS13Traffic"
    /\ Len(wire') > Len(wire)
    /\ wire'[Len(wire) + 1].dir = "in"
    /\ wire'[Len(wire) + 1].typ = "NewSessionTicket"
    /\ wire'[Len(wire) + 1].handled
    /\ rx'.typ = "NewSessionTicket"

\* the session value the client builds from the ticket nst on this
\* connection
TicketSessionValue(nst) ==
    [version |-> "TLSv1_3",
     cipher_suite |-> sess.suite,
     ticket |-> nst.ticket,
     master_secret |->
         [kind |-> "TicketPsk",
          inputs |-> <<[kind |-> "ResumptionMasterSecret",
                        inputs |-> sess.key_schedule.inputs,
                        hash |-> [alg |-> sess.hash_alg,
                                  over |-> sess.hs_transcript]],
                       nst.nonce>>,
          hash |-> NoHash],
     lifetime |-> nst.lifetime,
     age_add |-> nst.age_add,
     max_early_data_size |->
         IF nst.max_early_data_size >= 0 THEN nst.max_early_data_size
         ELSE 0]

\* C24: a NewSessionTicket handled in the traffic state changes the session
\* store at most under the session key of this connection's DNS name, and
\* then to the value holding TLS 1.3, the negotiated suite, the ticket
\* bytes, the PSK derived from the resumption master secret and the ticket
\* nonce, the ticket's lifetime and age_add and, when present, its
\* max_early_data_size; whether the store took the value or refused it, the
\* connection stays in the traffic state without error.
C24_TicketStored ==
    [][NewSessionTicketStep =>
          /\ st' = "ExpectTLS13Traffic" /\ err' = "none"
          /\ \/ store' = store
             \/ store' = [store EXCEPT
                            ![session_for_dns_name(DnsName)] =
                                TicketSessionValue(rx'.m)]]_vars

\* C24 witness: a ticket carrying max_early_data_size was handled in the
\* traffic state and the store holds its value under the session key of the
\* DNS name, the entry of the other server being untouched
C24_Witness ==
    /\ st = "ExpectTLS13Traffic" /\ rx.typ = "NewSessionTicket"
    /\ rx.m.max_early_data_size = 1
    /\ store[session_for_dns_name(DnsName)] = TicketSessionValue(rx.m)
    /\ store[session_for_dns_name(OtherDnsName)] = OtherSession

\* a message of a type the traffic state accepts is handled without error
TrafficStep ==
    /\ st = "ExpectTLS13Traffic"
    /\ Len(wire') > Len(wire)
    /\ wire'[Len(wire) + 1].dir = "in"
    /\ wire'[Len(wire) + 1].typ \in
           {"ApplicationData", "NewSessionTicket", "KeyUpdate"}
    /\ wire'[Len(wire) + 1].handled
    /\ err' = "none" /\ st' # "Panic"

\* C25: ExpectTLS13Traffic is terminal: a message it accepts that is handled
\* without error leaves the machine in ExpectTLS13Traffic, and from
\* ExpectTLS13Traffic no step enters a handshake state.
C25_TrafficIsTerminal ==
    [][/\ TrafficStep => st' = "ExpectTLS13Traffic"
       /\ st = "ExpectTLS13Traffic" =>
              st' \in {"ExpectTLS13Traffic", "Dead", "Panic"}]_vars

\* C25 witness: a KeyUpdate was handled in the traffic state and the machine
\* is still there
C25_Witness ==
    /\ st = "ExpectTLS13Traffic" /\ err = "none"
    /\ rx.typ = "KeyUpdate"
    /\ Last(wire).at = "ExpectTLS13Traffic" /\ Last(wire).handled

\* C26: whenever the early_traffic flag is set, the installed write
\* encryptor is the one derived from client_early_traffic_secret.
C26_EarlyTrafficUnderEarlyKey ==
    sess.early_traffic =>
        sess.message_encrypter.kind = "ClientEarlyTrafficSecret"

\* the client has answered the server's certificate: a ClientKeyExchange or
\* a client Finished is on the wire, or an authenticated-handshake key or
\* the client application key is installed
ClientResponded ==
    \/ \E i \in DOMAIN wire :
          /\ wire[i].dir = "out"
          /\ wire[i].typ \in {"ClientKeyExchange", "Finished"}
    \/ sess.message_encrypter.kind \in
          {"ClientAuthenticatedHandshakeTrafficSecret",
           "ClientApplicationTrafficSecret"}
    \/ sess.message_decrypter.kind =
          "ServerAuthenticatedHandshakeTrafficSecret"

\* the verifier does not accept the chain of the Certificate message m
ChainVerificationFails(m) == Len(m.chain) = 0 \/ m.verdict # "ok"

\* C27: a ClientKeyExchange or client Finished is emitted, or an
\* authenticated-handshake or client application key installed, only in the
\* step that handles a Certificate whose chain (the one kept as the server's
\* chain) the verifier accepted; a Certificate that is rejected or whose
\* chain fails verification ends the connection with none of these and with
\* no application key on the read side either, and that remains so for as
\* long as no chain has been verified.
C27_ClientKxOnlyAfterVerification ==
    /\ [](rx.typ = "Certificate" /\ hs.cert_verified # "verifier" =>
             /\ st = "Dead"
             /\ ~ClientResponded
             /\ sess.message_decrypter.kind #
                    "ServerApplicationTrafficSecret"
             /\ ~sess.traffic)
    /\ [][/\ CertificateStep
             /\ (st' = "Dead" \/ ChainVerificationFails(rx'.m))
             => st' = "Dead" /\ ~ClientResponded'
          /\ ~ClientResponded /\ ClientResponded'
             => /\ CertificateStep
                /\ ~ChainVerificationFails(rx'.m)
                /\ hs'.cert_chain = rx'.m.chain
                /\ hs'.cert_verified = "verifier"]_vars

\* C27 witness: the verifier refused the chain of a well-formed Certificate
\* message, the connection is dead and nothing was sent in answer but the
\* alert
C27_Witness ==
    /\ st = "Dead" /\ rx.typ = "Certificate"
    /\ rx.m.context_empty /\ ~rx.m.ext_bad /\ rx.m.scts = "none"
    /\ rx.m.verdict = "UnknownIssuer" /\ err = "UnknownIssuer"
    /\ hs.cert_chain = rx.m.chain /\ Len(hs.cert_chain) > 0
    /\ ~ClientResponded

\* a TLS 1.3 ServerHello was handled and the machine moved on
ServerHelloAccepted ==
    ServerHelloStep /\ st' = "ExpectTLS13EncryptedExtensions"

\* the shared secret of the key exchange the ServerHello m completes: the
\* one the server's share gives with the client's share for the same group
ServerHelloSharedSecret(m) ==
    IF m.key_share = DEFAULT_GROUP THEN "kx_ss_default" ELSE "kx_ss_other"

\* C28: when a TLS 1.3 ServerHello is accepted, the shared secret comes
\* from decapsulating the server's key share with the client's share for
\* the same group and is the last input of the key schedule, and both
\* handshake traffic secrets are derived from the schedule that has it;
\* hash_at_client_recvd_server_hello is the transcript hash over exactly
\* ClientHello and ServerHello and both secrets are derived over it; the
\* read key is installed first and the write key second.
C28_ServerHelloKeyOrder ==
    [][ServerHelloAccepted =>
          LET ks == sess'.key_schedule
              snapshot == hs'.hash_at_client_recvd_server_hello
          IN  /\ \E i \in DOMAIN hs.offered_key_shares :
                    hs.offered_key_shares[i].group = rx'.m.key_share
              /\ ks.inputs =
                    Append(IF rx'.m.psk_index >= 0
                           THEN sess.key_schedule.inputs
                           ELSE <<Ikm("empty", "zero", NoHash)>>,
                           Ikm("secret", ServerHelloSharedSecret(rx'.m),
                               NoHash))
              /\ snapshot =
                    [alg |-> SuiteHash(rx'.m.cipher_suite),
                     over |-> <<Msg("client", "ClientHello"),
                                Msg("server", "ServerHello")>>]
              /\ sess'.message_decrypter =
                    [kind |-> "ServerHandshakeTrafficSecret",
                     inputs |-> ks.inputs, hash |-> snapshot]
              /\ sess'.message_encrypter =
                    [kind |-> "ClientHandshakeTrafficSecret",
                     inputs |-> ks.inputs, hash |-> snapshot]
              /\ sess'.installed =
                    sess.installed \o
                       <<<<"read", "ServerHandshakeTrafficSecret">>,
                         <<"write", "ClientHandshakeTrafficSecret">>>>]_vars

\* C28 witness: a ServerHello that selects no PSK was accepted, the key
\* exchange was done in the default group and both handshake keys are
\* installed
C28_Witness ==
    /\ st = "ExpectTLS13EncryptedExtensions" /\ rx.typ = "ServerHello"
    /\ rx.m.psk_index < 0 /\ rx.m.key_share = DEFAULT_GROUP
    /\ sess.message_decrypter.kind = "ServerHandshakeTrafficSecret"
    /\ sess.message_encrypter.kind = "ClientHandshakeTrafficSecret"
    /\ Len(sess.installed) >= 2

\* a Certificate was handled and answered: the KEMTLS step was taken
KemtlsStep == CertificateStep /\ st' = "ExpectTLS13Finished"

\* C29: in the KEMTLS step the ClientKeyExchange enters the transcript and is
\* sent (still under the handshake key), the encapsulated secret is injected
\* and the schedule ratcheted with the transcript hash that ends with the
\* ClientKeyExchange, the client and the server authenticated-handshake
\* secrets are derived at that same hash and installed as write and read
\* key, and then the client Finished is computed over the transcript ending
\* with the ClientKeyExchange and sent under the new write key.
C29_KemtlsStepOrder ==
    [][KemtlsStep =>
          LET ks == sess'.key_schedule
              n == Len(wire')
              h == [alg |-> sess.hash_alg,
                    over |-> sess.hs_transcript \o
                               <<Msg("server", "Certificate"),
                                 Msg("client", "ClientKeyExchange")>>]
              write_key ==
                  [kind |-> "ClientAuthenticatedHandshakeTrafficSecret",
                   inputs |-> ks.inputs, hash |-> h]
              read_key ==
                  [kind |-> "ServerAuthenticatedHandshakeTrafficSecret",
                   inputs |-> ks.inputs, hash |-> h]
          IN  /\ sess'.hs_transcript =
                    h.over \o <<Msg("client", "Finished")>>
              /\ n = Len(wire) + 3
              /\ wire'[n - 1] =
                    [dir |-> "out", typ |-> "ClientKeyExchange",
                     key |-> "ClientHandshakeTrafficSecret",
                     at |-> st, handled |-> TRUE]
              /\ wire'[n] =
                    [dir |-> "out", typ |-> "Finished",
                     key |-> "ClientAuthenticatedHandshakeTrafficSecret",
                     at |-> st, handled |-> TRUE]
              /\ ks.inputs =
                    sess.key_schedule.inputs \o
                       <<Ikm("secret", KemSecret(rx'.m.chain[1].pk), NoHash),
                         Ikm("derived", "handshake", h)>>
              /\ sess'.message_decrypter = read_key
              /\ hs'.client_verify_data = [fk |-> write_key, hash |-> h]
              /\ sess'.installed =
                    sess.installed \o
                       <<<<"write",
                           "ClientAuthenticatedHandshakeTrafficSecret">>,
                         <<"read",
                           "ServerAuthenticatedHandshakeTrafficSecret">>,
                         <<"write", "ClientApplicationTrafficSecret">>>>]_vars

\* C29 witness: the KEMTLS step was taken on a KEM certificate; the
\* ClientKeyExchange and the client Finished are the last records on the
\* wire
C29_Witness ==
    /\ st = "ExpectTLS13Finished" /\ rx.typ = "Certificate"
    /\ Len(rx.m.chain) > 0 /\ rx.m.chain[1].kind = "kem"
    /\ Len(wire) >= 2
    /\ wire[Len(wire) - 1].typ = "ClientKeyExchange"
    /\ wire[Len(wire)].typ = "Finished"
    /\ hs.client_verify_data # NoVerifyData

\* a server Finished is handled in ExpectTLS13Finished
ServerFinishedStep ==
    /\ st = "ExpectTLS13Finished"
    /\ Len(wire') > Len(wire)
    /\ wire'[Len(wire) + 1].dir = "in"
    /\ wire'[Len(wire) + 1].typ = "Finished"
    /\ wire'[Len(wire) + 1].handled
    /\ rx'.typ = "Finished"

\* C30: on a server Finished the expected verify_data is computed over the
\* transcript hash without that Finished; the Finished enters the transcript
\* only when the comparison succeeds; then the key schedule has been
\* ratcheted with input_empty, and the server application traffic secret and
\* the exporter secret are both derived from the ratcheted schedule over the
\* transcript hash that includes the server Finished.
C30_ServerFinishedOrder ==
    [][ServerFinishedStep =>
          LET before == [alg |-> sess.hash_alg, over |-> sess.hs_transcript]
              after == [alg |-> sess.hash_alg,
                        over |-> Append(sess.hs_transcript,
                                        Msg("server", "Finished"))]
              ks == sess'.key_schedule
          IN  /\ hs'.expect_verify_data.hash = before
              /\ hs'.expect_verify_data.fk =
                    sess.key_schedule.current_server_traffic_secret
              /\ IF rx'.m # hs'.expect_verify_data
                 THEN /\ sess'.hs_transcript = sess.hs_transcript
                      /\ ks = sess.key_schedule
                      /\ st' = "Dead"
                 ELSE /\ sess'.hs_transcript = after.over
                      /\ ks.inputs =
                            Append(sess.key_schedule.inputs,
                                   Ikm("empty", "zero", NoHash))
                      /\ ks.current_server_traffic_secret =
                            [kind |-> "ServerApplicationTrafficSecret",
                             inputs |-> ks.inputs, hash |-> after]
                      /\ sess'.message_decrypter =
                            ks.current_server_traffic_secret
                      /\ ks.current_exporter_secret =
                            [kind |-> "ExporterMasterSecret",
                             inputs |-> ks.inputs, hash |-> after]]_vars

\* C30 witness: a server Finished was compared successfully after a KEMTLS
\* step; it is the last message of the transcript and the read key is the
\* server application traffic secret
C30_Witness ==
    /\ st = "ExpectTLS13Traffic" /\ rx.typ = "Finished"
    /\ rx.m = hs.expect_verify_data
    /\ hs.cert_verified = "verifier"
    /\ Last(sess.hs_transcript) = Msg("server", "Finished")
    /\ sess.message_decrypter.kind = "ServerApplicationTrafficSecret"
    /\ sess.key_schedule.current_exporter_secret # NoSecret

\* C31: when a ServerHello is accepted, the resuming session is kept exactly
\* when the server selected PSK index 0 of a PSK the ClientHello offered,
\* and then the key schedule is the one the binder computation seeded with
\* the resumption secret, with the key exchange secret added; when no PSK
\* was selected the resuming session is cleared, early data is marked
\* rejected and the key schedule is a fresh one over the suite's hash seeded
\* with the all-zero IKM before the key exchange secret; a ServerHello that
\* selects a PSK while the client has no resuming session is an error.
C31_ResumingIffPskSelected ==
    [][/\ ServerHelloAccepted =>
             LET ks == sess'.key_schedule
                 kx == Ikm("secret", ServerHelloSharedSecret(rx'.m), NoHash)
             IN  IF rx'.m.psk_index >= 0
                 THEN /\ rx'.m.psk_index = 0
                      /\ "PreSharedKey" \in Range(hs.sent_extensions)
                      /\ hs.resuming_session # NoSession
                      /\ hs'.resuming_session = hs.resuming_session
                      /\ ks.alg = SuiteHash(hs.resuming_session.cipher_suite)
                      /\ ks.inputs =
                            <<Ikm("secret",
                                  hs.resuming_session.master_secret, NoHash),
                              kx>>
                 ELSE /\ hs'.resuming_session = NoSession
                      /\ sess'.early_data = "Rejected"
                      /\ ~sess'.early_traffic
                      /\ ks.alg = SuiteHash(rx'.m.cipher_suite)
                      /\ ks.inputs = <<Ikm("empty", "zero", NoHash), kx>>
       /\ (ServerHelloStep /\ rx'.m.psk_index >= 0
               /\ hs.resuming_session = NoSession)
             => st' = "Dead" /\ err' # "none"]_vars

\* C31 witness: the server selected the offered PSK and the ServerHello was
\* accepted with the resuming session kept
C31_Witness ==
    /\ st = "ExpectTLS13EncryptedExtensions" /\ rx.typ = "ServerHello"
    /\ rx.m.psk_index = 0
    /\ hs.resuming_session # NoSession
    /\ Len(sess.key_schedule.inputs) = 2
    /\ sess.key_schedule.inputs[1].val = hs.resuming_session.master_secret

\* C32: received application data reaches the read buffer only in the
\* traffic state and only after the server Finished was compared
\* successfully; an ApplicationData record that arrives in a handshake state
\* is never handled.
C32_AppDataOnlyInTraffic ==
    /\ [](/\ sess.received_plaintext > 0 => hs.fin_verified = "compared"
          /\ \A i \in DOMAIN wire :
                (wire[i].dir = "in" /\ wire[i].typ = "ApplicationData"
                    /\ wire[i].handled)
                => wire[i].at = "ExpectTLS13Traffic")
    /\ [][sess'.received_plaintext # sess.received_plaintext =>
             /\ st = "ExpectTLS13Traffic" /\ st' = "ExpectTLS13Traffic"
             /\ hs.fin_verified = "compared"
             /\ rx'.typ = "ApplicationData"]_vars

\* C32 witness: application data was delivered in the traffic state of a
\* KEMTLS handshake
C32_Witness ==
    /\ st = "ExpectTLS13Traffic" /\ sess.received_plaintext > 0
    /\ rx.typ = "ApplicationData"
    /\ hs.fin_verified = "compared" /\ hs.cert_verified = "verifier"

\* the key-schedule stage a traffic secret was derived at: the key material
\* injected before its derivation, later key updates left out
StageOf(secret) ==
    SelectSeq(secret.inputs, LAMBDA x : x.val # "traffic upd")

\* C33: the client and the server application traffic secret are derived at
\* the same stage of the key schedule, the one after the final input_empty.
C33_AppSecretsSameStage ==
    LET c == sess.key_schedule.current_client_traffic_secret
        s == sess.key_schedule.current_server_traffic_secret
    IN  (c.kind = "ClientApplicationTrafficSecret"
            /\ s.kind = "ServerApplicationTrafficSecret")
        => /\ StageOf(c) = StageOf(s)
           /\ Last(StageOf(c)) = Ikm("empty", "zero", NoHash)

\* C34: no message that a state's check_message accepts makes the handler
\* abort: after a HelloRetryRequest, a ServerHello or a Certificate was
\* passed to its handler the connection has a successor state or an error,
\* never a panic.
C34_HandlersNeverPanic ==
    rx.typ \in {"HelloRetryRequest", "ServerHello", "Certificate"}
        => st # "Panic"

\* an EncryptedExtensions message is handled
EncryptedExtensionsStep ==
    /\ st = "ExpectTLS13EncryptedExtensions"
    /\ Len(wire') > Len(wire)
    /\ wire'[Len(wire) + 1].dir = "in"
    /\ wire'[Len(wire) + 1].typ = "EncryptedExtensions"
    /\ wire'[Len(wire) + 1].handled
    /\ rx'.typ = "EncryptedExtensions"

\* C35: an EncryptedExtensions message that passes the extension checks
\* leads, when the handshake is resuming, to ExpectTLS13Finished, with early
\* data marked accepted if early traffic was in effect and the early_data
\* extension is present, and marked rejected, early traffic ended and the
\* client handshake write key installed if early traffic was in effect and
\* the extension is absent; when the handshake is not resuming, an
\* early_data extension is an error and otherwise the next state is
\* ExpectTLS13CertificateOrCertReq.
C35_EncryptedExtensionsOutcome ==
    [][EncryptedExtensionsStep =>
          IF hs.resuming_session # NoSession
          THEN st' # "Dead" =>
                 /\ st' = "ExpectTLS13Finished"
                 /\ IF ~sess.early_traffic
                    THEN /\ sess'.early_data = sess.early_data
                         /\ sess'.message_encrypter = sess.message_encrypter
                    ELSE IF "EarlyData" \in rx'.m.exts
                    THEN /\ sess'.early_data = "Accepted"
                         /\ sess'.early_traffic
                         /\ sess'.message_encrypter = sess.message_encrypter
                    ELSE /\ sess'.early_data = "Rejected"
                         /\ ~sess'.early_traffic
                         /\ sess'.message_encrypter =
                               [kind |-> "ClientHandshakeTrafficSecret",
                                inputs |-> sess.key_schedule.inputs,
                                hash |->
                                  hs.hash_at_client_recvd_server_hello]
                         /\ sess'.installed =
                               Append(sess.installed,
                                  <<"write", "ClientHandshakeTrafficSecret">>)
          ELSE /\ "EarlyData" \in rx'.m.exts =>
                     st' = "Dead" /\ err' # "none"
               /\ st' # "Dead" => st' = "ExpectTLS13CertificateOrCertReq"]_vars

\* C35 witness: a resuming handshake with early traffic got an
\* EncryptedExtensions message without early_data: early data is rejected
\* and the server Finished is awaited
C35_Witness ==
    /\ st = "ExpectTLS13Finished" /\ rx.typ = "EncryptedExtensions"
    /\ "EarlyData" \in Range(hs.sent_extensions)
    /\ "EarlyData" \notin rx.m.exts
    /\ hs.resuming_session # NoSession
    /\ sess.early_data = "Rejected" /\ ~sess.early_traffic
    /\ sess.message_encrypter.kind = "ClientHandshakeTrafficSecret"

\* the positions of the ChangeCipherSpec records the client sent
FakeCcsPositions ==
    {i \in DOMAIN wire :
        wire[i].dir = "out" /\ wire[i].typ = "ChangeCipherSpec"}

\* C36: the client sends at most one fake ChangeCipherSpec, and has sent it
\* exactly when sent_tls13_fake_ccs is set; with early data offered it is
\* the record right after the ClientHello, otherwise the record right after
\* the handled ServerHello; once a ServerHello was accepted it has been sent.
C36_OneFakeCcs ==
    /\ Cardinality(FakeCcsPositions) <= 1
    /\ hs.sent_tls13_fake_ccs <=> FakeCcsPositions # {}
    /\ \A i \in FakeCcsPositions :
          /\ i > 1
          /\ wire[i].key = "plain"
          /\ IF "EarlyData" \in Range(hs.sent_extensions)
             THEN wire[i - 1].dir = "out" /\ wire[i - 1].typ = "ClientHello"
             ELSE /\ wire[i - 1].dir = "in"
                  /\ wire[i - 1].typ = "ServerHello"
                  /\ wire[i - 1].handled
    /\ st \in LiveStates \ {"ExpectServerHelloOrHelloRetryRequest",
                             "ExpectServerHello"}
          => hs.sent_tls13_fake_ccs

\* C36 witness: early data was offered, the fake ChangeCipherSpec went out
\* after the ClientHello, and a ServerHello was accepted after it
C36_Witness ==
    /\ st = "ExpectTLS13EncryptedExtensions"
    /\ "EarlyData" \in Range(hs.sent_extensions)
    /\ Cardinality(FakeCcsPositions) = 1
    /\ \E i \in DOMAIN wire : \E j \in FakeCcsPositions :
          /\ j < i /\ wire[i].dir = "in" /\ wire[i].typ = "ServerHello"
          /\ wire[i].handled

\* a message is passed to the handler of the current state
HandlerStep ==
    /\ Len(wire') > Len(wire)
    /\ wire'[Len(wire) + 1].dir = "in"
    /\ wire'[Len(wire) + 1].handled

\* C37: a handler that runs while a partially received handshake message is
\* pending in the joiner gives the record layer no new key.
C37_NoKeyChangeWithPendingFragment ==
    [][HandlerStep /\ rx'.pending =>
          /\ sess'.message_encrypter = sess.message_encrypter
          /\ sess'.message_decrypter = sess.message_decrypter
          /\ sess'.installed = sess.installed]_vars

\* a secret was injected into the key schedule or derived from it
KeyScheduleUsed ==
    \/ Len(sess.key_schedule.inputs) > 0
    \/ sess.key_schedule.current_client_traffic_secret # NoSecret
    \/ sess.key_schedule.current_server_traffic_secret # NoSecret
    \/ sess.key_schedule.current_exporter_secret # NoSecret
    \/ Len(sess.installed) > 0

\* the ClientHello carried pre_shared_key
PskOffered == "PreSharedKey" \in Range(hs.sent_extensions)

\* C38: a key schedule is installed on the connection whenever one was
\* derived from or injected into; while the ServerHello is awaited it is
\* installed exactly when the ClientHello carried pre_shared_key; early data
\* is enabled only in a ClientHello that carries pre_shared_key; and a
\* ServerHello that selects a PSK is accepted only when pre_shared_key was
\* offered, and is otherwise rejected as carrying an unsolicited extension.
C38_KeyScheduleInstalledBeforeUse ==
    /\ [](/\ KeyScheduleUsed => sess.key_schedule.alg # "none"
          /\ st \in {"ExpectServerHelloOrHelloRetryRequest",
                     "ExpectServerHello"}
                => (PskOffered <=> sess.key_schedule.alg # "none")
          /\ "EarlyData" \in Range(hs.sent_extensions) => PskOffered
          /\ (sess.early_data \in {"Ready", "Accepted"} \/ sess.early_traffic)
                => PskOffered)
    /\ [][(ServerHelloStep /\ rx'.m.psk_index >= 0) =>
             /\ ServerHelloAccepted => PskOffered
             /\ (~PskOffered /\ PassesVersionAndCompression(rx'.m)
                   /\ "PreSharedKey" \in rx'.m.exts
                   /\ ~rx'.m.dup)
                  => /\ st' = "Dead"
                     /\ err' = "PeerMisbehavedError"
                     /\ Last(sess'.alerts) = "UnsupportedExtension"]_vars

\* C38 witness: a ServerHello that selected the offered PSK was accepted and
\* its key share was injected into the schedule the binder had installed
C38_Witness ==
    /\ st = "ExpectTLS13EncryptedExtensions" /\ rx.typ = "ServerHello"
    /\ rx.m.psk_index = 0 /\ PskOffered
    /\ sess.key_schedule.alg # "none"
    /\ Len(sess.key_schedule.inputs) = 2
    /\ sess.key_schedule.inputs[1].tag = "secret"

\* the step in which ExpectTLS13Traffic::handle is given an ApplicationData
\* record or a NewSessionTicket
DataOrTicketStep ==
    /\ st = "ExpectTLS13Traffic"
    /\ Len(wire') > Len(wire)
    /\ wire'[Len(wire) + 1].dir = "in"
    /\ wire'[Len(wire) + 1].typ \in {"ApplicationData", "NewSessionTicket"}
    /\ wire'[Len(wire) + 1].handled

C40_TablesComplete ==
    /\ (lookup.oid # "none"
          /\ (lookup.listed > 0 \/ lookup.scheme \in KemCodepoints
                                \/ lookup.scheme \in PqSignatureCodepoints))
         => /\ lookup.arms = 1
            /\ lookup.oid # "unreachable"
    /\ lookup.listed <= 1
    /\ (lookup.listed # -1 /\ lookup.scheme \in PqSignatureCodepoints)
         => lookup.listed = 1
    /\ (lookup.listed = 1 /\ lookup.verify # -1) => lookup.verify >= 1

\* C40 witness: the last scheme of the PQ signature scheme list was looked
\* up in the three tables: it has one arm with its blob, one entry in the
\* list and one verification algorithm
C40_Witness ==
    /\ lookup.scheme = PQ_SIGSCHEMES[Len(PQ_SIGSCHEMES)]
    /\ lookup.arms = 1 /\ lookup.oid = "alg-xmss.der"
    /\ lookup.listed = 1 /\ lookup.verify = 1

====
